---- MODULE Spec2Model ----
(***************************************************************************)
(* Column reconciliation engine of automation_fun: the mapper loop of      *)
(* column_mapper.map_confluence_columns_to_ml_ddl over the table           *)
(* confluence_ml_column_map kept by database_manager.DatabaseManager.      *)
(*                                                                         *)
(* A mapper run is modelled statement block by statement block: one action *)
(* per page prologue, per environment iteration, per documented column     *)
(* (override guard, hash-gate, fuzzy match), per orphan sweep and for the  *)
(* page-level exception handler.  Documentation, physical DDL and human    *)
(* edits of the mapping table change between runs.                         *)
(***************************************************************************)
EXTENDS Integers, Sequences, FiniteSets, TLC

\* ------------------------------------------------------------------ bounds
MaxRuns == 3
MaxEdits == 2
MaxFailures == 1

\* ------------------------------------------------------- program constants
NULL == "NULL"
UNBOUND == "UNBOUND"

\* a nullable value that is not a string: None, or Some(v)
None == <<>>
Some(v) == <<v>>

\* config.py: CHECK_ENVIRONMENTS
CHECK_ENVIRONMENTS == <<"DEV", "SPC", "BFM", "PRU">>

Pages == {1, 2}

\* str.upper() on one character of a column name (names are sequences of
\* characters)
UpperChar(c) ==
    CASE c = "a" -> "A"
      [] c = "b" -> "B"
      [] c = "c" -> "C"
      [] c = "d" -> "D"
      [] OTHER -> c

\* str.upper()
Upper(s) == [i \in 1..Len(s) |-> UpperChar(s[i])]

\* str.strip().lower() on the raw flag strings the parser can deliver
StripLower(v) ==
    CASE v = " Yes " -> "yes"
      [] v = "YES" -> "yes"
      [] v = "No" -> "no"
      [] OTHER -> v

\* column_mapper._interpret_confluence_boolean_string
InterpretConfluenceBooleanString(value) ==
    IF value # NULL /\ value # "" THEN StripLower(value) = "yes" ELSE FALSE

\* ------------------------------------------------------------- the inputs
\* one column_detail of table_1 in a page's parsed_json
ColX(flag) == [target_field_name |-> "X", source_field_name |-> <<"a", "b">>,
               add_source_to_target |-> flag, source_table |-> "s1"]
ColY(flag) == [target_field_name |-> "Y", source_field_name |-> <<"c", "b">>,
               add_source_to_target |-> flag, source_table |-> "s1"]

\* the versions of table_1 a page's parsed content can hold
DocFull == <<ColX("yes"), ColY(" Yes ")>>
DocNoY == <<ColX("yes")>>
DocYExcluded == <<ColX("yes"), ColY("No")>>
DocVersions == {DocFull, DocNoY, DocYExcluded}
\* table_1 with the second column taken from another source table
DocMixed == <<ColX("yes"), [ColY("yes") EXCEPT !.source_table = "s2"]>>
\* page 1 documents X and Y and is edited between runs; page 2 documents X
DocVersionsOf(p) == IF p = 1 THEN DocVersions ELSE {DocNoY}
InitialDoc(p) == IF p = 1 THEN DocFull ELSE DocNoY

\* the physical definitions a warehouse object can have: the stored hash and
\* the column names as written in the CREATE TABLE text
DdlV1 == [current_ddl_hash |-> "h1", current_extracted_ddl |-> <<<<"A", "b">>, <<"C", "D">>>>]
DdlV2 == [current_ddl_hash |-> "h2", current_extracted_ddl |-> <<<<"c", "d">>>>]
DdlMissing == [current_ddl_hash |-> NULL, current_extracted_ddl |-> <<>>]
DdlVersions == {DdlV1, DdlV2, DdlMissing}

\* the column names as the CREATE TABLE text writes them
ExtractColumnsFromDdl_AsWritten(text) == text

\* ddl_utils.extract_columns_from_ddl: the column names, upper-cased
ExtractColumnsFromDdl(text) == [i \in 1..Len(text) |-> Upper(text[i])]

\* the per-environment maps load_fqdn_resolver can return for source S1
NoDetails == [fqdn |-> NULL, object_type |-> NULL]
ResolverLastEnv ==
    [e \in {"DEV", "SPC", "BFM", "PRU"} |->
        CASE e = "DEV" -> [fqdn |-> "F1", object_type |-> "TABLE"]
          [] e = "PRU" -> [fqdn |-> "F2", object_type |-> "TABLE"]
          [] OTHER -> NoDetails]
ResolverMidEnv ==
    [e \in {"DEV", "SPC", "BFM", "PRU"} |->
        CASE e = "DEV" -> [fqdn |-> "F1", object_type |-> "TABLE"]
          [] e = "SPC" -> [fqdn |-> "F2", object_type |-> "VIEW"]
          [] OTHER -> NoDetails]
ResolverMaps == {ResolverLastEnv, ResolverMidEnv}
\* the map of a second source, S2
ResolverOther ==
    [e \in {"DEV", "SPC", "BFM", "PRU"} |->
        CASE e = "DEV" -> [fqdn |-> "F3", object_type |-> "TABLE"]
          [] OTHER -> NoDetails]

\* the physical objects a resolver map names: (fqdn, environment, object_type),
\* the rows ml_table_checker keeps in snowflake_ml_source_metadata
ObjectsOf(res) ==
    UNION {{<<res[n][e].fqdn, e, res[n][e].object_type>> :
                e \in {x \in DOMAIN res[n] : res[n][x] # NoDetails}} : n \in DOMAIN res}

\* column_mapper_config.json after load_column_mapper_config
Configs ==
    {[match_threshold |-> 50, match_strategy |-> "TOKEN_SET_RATIO", exact_match_only |-> FALSE],
     [match_threshold |-> 50, match_strategy |-> "RATIO", exact_match_only |-> TRUE]}

\* the contents column_mapper_config.json can have: the file or no file, the
\* JSON value of match_threshold with its Python type (JSON true is the bool
\* True, an int of value 1), the string of match_strategy or NULL for none
RawThresholds ==
    {[type |-> "int", v |-> 0 - 5], [type |-> "int", v |-> 50], [type |-> "int", v |-> 150],
     [type |-> "bool", v |-> 1], [type |-> "str", v |-> 80], [type |-> "absent", v |-> 0]}
RawStrategies == {"ratio", "TOKEN_SET_RATIO", "WRATIO", "levenshtein", NULL}
RawDefault == [file |-> "present", match_threshold |-> [type |-> "int", v |-> 50],
               match_strategy |-> "TOKEN_SET_RATIO", exact_match_only |-> FALSE]
RawConfigs ==
    {[RawDefault EXCEPT !.file = "missing"]}
        \cup [file : {"present"}, match_threshold : RawThresholds,
              match_strategy : RawStrategies, exact_match_only : {FALSE}]

\* str.upper() of a strategy name
UpperStrategy(name) == IF name = "ratio" THEN "RATIO" ELSE name

\* the loader without the test of the strategy name
LoadColumnMapperConfig_AnyStrategy(raw) ==
    IF raw.file = "missing" THEN <<>>
    ELSE IF raw.match_threshold.type \notin {"int", "float", "bool"} THEN <<>>
    ELSE IF raw.match_strategy = NULL THEN <<>>
    ELSE <<[raw EXCEPT !.match_threshold =
                [@ EXCEPT !.v = IF @ < 0 THEN 0 ELSE IF @ > 100 THEN 100 ELSE @]]>>

\* the loader without the clamp of line 254
LoadColumnMapperConfig_NoClamp(raw) ==
    IF raw.file = "missing" THEN <<>>
    ELSE IF raw.match_threshold.type \notin {"int", "float", "bool"} THEN <<>>
    ELSE IF raw.match_strategy = NULL THEN <<>>
    ELSE IF UpperStrategy(raw.match_strategy) \notin
               {"RATIO", "PARTIAL_RATIO", "TOKEN_SORT_RATIO", "TOKEN_SET_RATIO"} THEN <<>>
    ELSE <<raw>>

\* config.load_column_mapper_config: None when it raises, else Some(the
\* dict with match_threshold clamped to 0..100)
LoadColumnMapperConfig(raw) ==
    IF raw.file = "missing" THEN None
    ELSE IF raw.match_threshold.type \notin {"int", "float", "bool"} THEN None
    ELSE IF raw.match_strategy = NULL THEN None
    ELSE IF UpperStrategy(raw.match_strategy) \notin
               {"RATIO", "PARTIAL_RATIO", "TOKEN_SORT_RATIO", "TOKEN_SET_RATIO"} THEN None
    ELSE Some([raw EXCEPT !.match_threshold =
                  [@ EXCEPT !.v = IF @ < 0 THEN 0 ELSE IF @ > 100 THEN 100 ELSE @]])

\* column_mapper.py 51-67: the strategy names the mapper maps to a scorer
MapperStrategies ==
    {"RATIO", "PARTIAL_RATIO", "TOKEN_SORT_RATIO", "TOKEN_SET_RATIO", "WRATIO", "QRATIO"}

\* ------------------------------------------------------------------- state
VARIABLES
    store,            \* confluence_ml_column_map: composite key -> row
    docs,             \* confluence_parsed_content: page -> table_1 columns
    ddl,              \* snowflake_ml_source_metadata: object -> hash and text
    config,           \* column mapper configuration
    resolver,         \* fqdn_resolver_map: SOURCE NAME -> environment -> details
    pc,               \* position of the mapper run
    pages_to_map,     \* rows fetched at the start of the run
    ml_ddl_cache,     \* DDL rows cached at the start of the run
    pageIdx, envIdx, colIdx,
    ml_env_upper, ml_source_fqdn, ml_object_type,  \* function-scope locals
    now,              \* datetime.now(), one tick per run
    edits, failures,  \* budget used by input changes and injected failures
    last,             \* history: the last statement block executed
    hist,             \* history: stores at the end of the last two runs
    table,            \* confluence_ml_column_map as the list of its rows
    writers,          \* two connections in an upsert: what each has read
    page_metadata,    \* confluence_page_metadata: page -> status and hashes
    stages,           \* the ingestion run and the parsing run: what each has read
    ml_metadata       \* snowflake_ml_source_metadata: object -> DDL and its history

vars == <<store, docs, ddl, config, resolver, pc, pages_to_map, ml_ddl_cache,
          pageIdx, envIdx, colIdx, ml_env_upper, ml_source_fqdn, ml_object_type,
          now, edits, failures, last, hist, table, writers, page_metadata,
          stages, ml_metadata>>

\* ------------------------------------------------------------ the matcher
Max(a, b) == IF a >= b THEN a ELSE b

RECURSIVE LcsLen(_, _)
\* length of the longest common subsequence (the Indel similarity)
LcsLen(s, t) ==
    IF s = <<>> \/ t = <<>> THEN 0
    ELSE IF Head(s) = Head(t) THEN 1 + LcsLen(Tail(s), Tail(t))
    ELSE Max(LcsLen(Tail(s), t), LcsLen(s, Tail(t)))

\* rapidfuzz fuzz.ratio: 100 * 2*LCS / (len1 + len2), as the exact fraction
\* <<numerator, denominator>>
RatioFrac(s, t) ==
    IF Len(s) + Len(t) = 0 THEN <<100, 1>>
    ELSE <<200 * LcsLen(s, t), Len(s) + Len(t)>>

\* the cutoff taken as a strict bound
FracGeq_Strict(f, n) == f[1] > n * f[2]

\* score >= score_cutoff
FracGeq(f, n) == f[1] >= n * f[2]
FracGt(f, g) == f[1] * g[2] > g[1] * f[2]

\* the greatest of a set of scores
MaxFrac(S) == CHOOSE f \in S : \A g \in S : ~FracGt(g, f)

\* the substrings of the longer string that rapidfuzz fuzz.partial_ratio
\* aligns the shorter one with: the prefixes shorter than it, the windows
\* of its length, the suffixes shorter than it
PartialWindows(m, t) ==
    {SubSeq(t, 1, i) : i \in 1..(m - 1)}
        \cup {SubSeq(t, i, i + m - 1) : i \in 1..(Len(t) - m + 1)}
        \cup {SubSeq(t, i, Len(t)) : i \in (Len(t) - m + 2)..Len(t)}

\* rapidfuzz fuzz.partial_ratio: the best fuzz.ratio of the shorter string
\* with a window of the longer one, both ways round for equal lengths
PartialRatioFrac(s, t) ==
    IF s = <<>> /\ t = <<>> THEN <<100, 1>>
    ELSE IF s = <<>> \/ t = <<>> THEN <<0, 1>>
    ELSE IF Len(s) < Len(t) THEN MaxFrac({RatioFrac(s, w) : w \in PartialWindows(Len(s), t)})
    ELSE IF Len(t) < Len(s) THEN MaxFrac({RatioFrac(t, w) : w \in PartialWindows(Len(t), s)})
    ELSE MaxFrac({RatioFrac(s, w) : w \in PartialWindows(Len(s), t)}
                    \cup {RatioFrac(t, w) : w \in PartialWindows(Len(t), s)})

\* the scorer selected by match_strategy_str (column_mapper.py 52-59); the
\* token scorers split on white space, which no column name of the model
\* contains: they score a string without token 0 and otherwise reduce to
\* fuzz.ratio of the single tokens
Scorer(strategy, s, t) ==
    CASE strategy = "RATIO" -> RatioFrac(s, t)
      [] strategy = "PARTIAL_RATIO" -> PartialRatioFrac(s, t)
      [] OTHER -> IF s = <<>> \/ t = <<>> THEN <<0, 1>> ELSE RatioFrac(s, t)

RECURSIVE Gcd(_, _)
Gcd(a, b) == IF b = 0 THEN a ELSE Gcd(b, a % b)

\* the score as the column match_percentage keeps it: sqlite stores the
\* float of rapidfuzz as it is (an integer when it is whole), here the
\* fraction in lowest terms
StoredScore(f) == <<f[1] \div Gcd(f[2], f[1]), f[2] \div Gcd(f[2], f[1])>>

RECURSIVE ExtractOneFrom(_, _, _, _, _, _)
\* the scan of rapidfuzz process.extractOne: a later choice replaces the
\* best one only with a strictly greater score
ExtractOneFrom(query, choices, strategy, cutoff, i, best) ==
    IF i > Len(choices) THEN best
    ELSE LET sc == Scorer(strategy, query, choices[i])
             take == FracGeq(sc, cutoff) /\ (best = None \/ FracGt(sc, best[1].frac))
         IN ExtractOneFrom(query, choices, strategy, cutoff, i + 1,
                IF take THEN Some([choice |-> choices[i], frac |-> sc]) ELSE best)

\* extractOne without its score_cutoff
ExtractOne_NoCutoff(query, choices, strategy, cutoff) ==
    ExtractOneFrom(query, choices, strategy, 0, 1, None)

\* rapidfuzz process.extractOne(query, choices, scorer, score_cutoff)
ExtractOne(query, choices, strategy, cutoff) ==
    ExtractOneFrom(query, choices, strategy, cutoff, 1, None)

\* ------------------------------------------------------- the mapping store
NonPkColumns ==
    {"matched_ml_column_name", "match_percentage", "match_strategy",
     "mapping_status", "ml_source_ddl_hash_at_mapping", "last_mapped_on",
     "notes", "user_override", "is_active"}

EmptyStore == [k \in {} |-> NULL]

\* SQL NULL in a column: the name, score and note columns hold structured
\* values, the others strings
NullOf(col) ==
    IF col \in {"matched_ml_column_name", "match_percentage", "notes"} THEN None ELSE NULL

\* DatabaseManager.get_confluence_ml_column_map_entry
GetEntry(st, key) == IF key \in DOMAIN st THEN Some(st[key]) ELSE None

\* the upsert with the inactive rows of the table deleted on the way
InsertOrUpdate_Purging(st, key, d) ==
    [k \in {j \in DOMAIN st : st[j].is_active = 1} \cup {key} |->
        IF k = key
        THEN [col \in NonPkColumns |->
                 IF col \in DOMAIN d THEN d[col]
                 ELSE IF key \in DOMAIN st THEN st[key][col] ELSE NullOf(col)]
        ELSE st[k]]

\* DatabaseManager.insert_or_update_confluence_ml_column_map: an existing
\* row takes every column the dict carries and keeps the others; a new row
\* takes None for the columns the dict lacks
InsertOrUpdate(st, key, d) ==
    IF key \in DOMAIN st
    THEN [st EXCEPT ![key] =
            [col \in NonPkColumns |-> IF col \in DOMAIN d THEN d[col] ELSE @[col]]]
    ELSE [k \in DOMAIN st \cup {key} |->
            IF k = key
            THEN [col \in NonPkColumns |-> IF col \in DOMAIN d THEN d[col] ELSE NullOf(col)]
            ELSE st[k]]

\* --------------------------------------------------- the page's documents
\* column_mapper.py 127-142: the columns marked add_source_to_target
ColumnsToMap(cols) ==
    SelectSeq(cols, LAMBDA c : InterpretConfluenceBooleanString(c.add_source_to_target))

\* the documented set narrowed to the columns marked for inclusion
AllTargetNames_OnlyIncluded(cols) ==
    {cols[i].target_field_name :
        i \in {j \in 1..Len(cols) : InterpretConfluenceBooleanString(cols[j].add_source_to_target)}}

\* column_mapper.py 138: all_current_confluence_target_names
AllTargetNames(cols) == {cols[i].target_field_name : i \in 1..Len(cols)}

\* column_mapper.py 148: the first truthy source_table of table_1
FirstSourceTable(cols) ==
    LET idx == {i \in 1..Len(cols) : cols[i].source_table \notin {NULL, ""}}
    IN IF idx = {} THEN NULL
       ELSE cols[CHOOSE i \in idx : \A j \in idx : i <= j].source_table

\* str.upper() of a logical source name
UpperSource(n) ==
    CASE n = "s1" -> "S1"
      [] n = "s2" -> "S2"
      [] OTHER -> n

\* column_mapper.py 154: fqdn_resolver_map.get(first_source_table.upper())
ResolvedEnvFqdns(res, source) ==
    IF source # NULL /\ UpperSource(source) \in DOMAIN res
    THEN Some(res[UpperSource(source)]) ELSE None

\* ----------------------------------------------------------------- Init
\* a row of confluence_page_metadata after a successful parse of the page:
\* approved, parsed, and parsed at the metadata hash it has
ParsedRow == [extraction_status |-> "PARSED_OK", user_verified |-> 1,
              hash_id |-> Some("m1"), last_parsed_content_hash |-> Some("m1")]

\* neither metadata_ingestor nor data_parser is running
IdleStages == [ingest |-> [pc |-> "idle", page |-> 0, existing |-> None],
               parser |-> [pc |-> "idle", todo |-> <<>>]]

\* the pages whose metadata row is parsed and approved
ApprovedPages(meta) ==
    {p \in DOMAIN meta : /\ meta[p].extraction_status = "PARSED_OK"
                         /\ meta[p].user_verified = 1}

\* column_mapper.py 72-83: the pages the mapper fetches, the rows of
\* confluence_page_metadata with PARSED_OK and user_verified = 1 joined with
\* their parsed content
\* the fetch without the condition on extraction_status
FetchPagesToMap_AnyStatus(meta, documents) ==
    SelectSeq([p \in 1..Cardinality(Pages) |-> [page_id |-> p, columns |-> documents[p]]],
              LAMBDA r : /\ r.page_id \in DOMAIN meta
                         /\ meta[r.page_id].user_verified = 1)

FetchPagesToMap(meta, documents) ==
    SelectSeq([p \in 1..Cardinality(Pages) |-> [page_id |-> p, columns |-> documents[p]]],
              LAMBDA r : /\ r.page_id \in DOMAIN meta
                         /\ meta[r.page_id].extraction_status = "PARSED_OK"
                         /\ meta[r.page_id].user_verified = 1)

NoStep == [op |-> "none", key |-> None, before |-> EmptyStore]

Init ==
    /\ store = EmptyStore
    /\ docs = [p \in Pages |-> InitialDoc(p)]
    /\ resolver \in {[S1 |-> r] : r \in ResolverMaps}
    /\ ddl = [o \in ObjectsOf(resolver) |-> DdlV1]
    /\ config \in Configs
    /\ pc = "idle"
    /\ pages_to_map = <<>>
    /\ ml_ddl_cache = ddl
    /\ pageIdx = 0 /\ envIdx = 0 /\ colIdx = 0
    /\ ml_env_upper = UNBOUND /\ ml_source_fqdn = UNBOUND /\ ml_object_type = UNBOUND
    /\ now = 0
    /\ edits = 0 /\ failures = 0
    /\ last = NoStep
    /\ hist = [end1 |-> EmptyStore, end2 |-> EmptyStore, runs |-> 0, dirty |-> FALSE,
               failed |-> FALSE, prevFailed |-> FALSE, pair |-> FALSE,
               failedKeys |-> {}, human |-> EmptyStore, removed |-> {},
               start |-> EmptyStore, interrupted |-> FALSE, retry |-> FALSE,
               raw |-> RawDefault, approved |-> {}]
    /\ table = <<>>
    /\ writers = [w \in {1, 2} |-> [pc |-> "idle", dict |-> None, exists |-> FALSE,
                                      done |-> None, n |-> 0]]
    /\ page_metadata = [p \in Pages |-> ParsedRow]
    /\ stages = IdleStages
    /\ ml_metadata = <<>>

\* ------------------------------------------------------ the run's position
PageRow == pages_to_map[pageIdx]
ToMap == ColumnsToMap(PageRow.columns)
\* the DDL row read from the table at each use instead of the run's cache
DdlInfo_Live == ddl[<<ml_source_fqdn, ml_env_upper, ml_object_type>>]
\* column_mapper.py 170: the DDL row of the scope in the run's cache
DdlInfo == ml_ddl_cache[<<ml_source_fqdn, ml_env_upper, ml_object_type>>]
ColDetail == ToMap[colIdx]
ColKey == <<PageRow.page_id, ColDetail.target_field_name,
            ml_source_fqdn, ml_env_upper, ml_object_type>>

EmptyNote == [kind |-> "", score |-> None, source |-> None, column |-> None]

\* the base dict with is_active 0
CurrentMappingData_Inactive ==
    [last_mapped_on |-> now,
     ml_source_ddl_hash_at_mapping |-> DdlInfo.current_ddl_hash,
     is_active |-> 0,
     user_override |-> 0,
     notes |-> EmptyNote]

\* column_mapper.py 205-223: the base dict of a mapping write, restricted
\* to the columns of the table
CurrentMappingData ==
    [last_mapped_on |-> now,
     ml_source_ddl_hash_at_mapping |-> DdlInfo.current_ddl_hash,
     is_active |-> 1,
     user_override |-> 0,
     notes |-> EmptyNote]

\* the test of line 261 without exact_match_only
NotExactUnderGate_GateOff(cfg, full) == FALSE

\* column_mapper.py 261: exact_match_only and score < 100
NotExactUnderGate(cfg, full) == cfg.exact_match_only /\ ~full

\* column_mapper.py 244-276: the fuzzy match and its classification,
\* merged into the base dict
FuzzyMappingData(base, source_field_name, choices, cfg) ==
    LET best == ExtractOne(Upper(source_field_name), choices,
                           cfg.match_strategy, cfg.match_threshold)
    IN IF best # None
       THEN LET col == best[1].choice
                score == StoredScore(best[1].frac)
                full == best[1].frac[1] = 100 * best[1].frac[2]
                matched == [matched_ml_column_name |-> Some(col),
                            match_percentage |-> Some(score),
                            match_strategy |-> cfg.match_strategy]
            IN IF NotExactUnderGate(cfg, full)
               THEN matched @@ ([mapping_status |-> "UNMAPPED_NOT_EXACT",
                                notes |-> [kind |-> "not_exact", score |-> Some(score),
                                           source |-> None, column |-> None]] @@ base)
               ELSE IF full
               THEN matched @@ ([mapping_status |-> "MAPPED_EXACT",
                                notes |-> [kind |-> "exact", score |-> None,
                                           source |-> Some(source_field_name),
                                           column |-> Some(col)]] @@ base)
               ELSE matched @@ ([mapping_status |-> "MAPPED_FUZZY",
                                notes |-> [kind |-> "fuzzy", score |-> Some(score),
                                           source |-> Some(source_field_name),
                                           column |-> Some(col)]] @@ base)
       ELSE [mapping_status |-> "UNMAPPED_LOW_SCORE",
             notes |-> [kind |-> "low_score", score |-> Some(cfg.match_threshold),
                        source |-> None, column |-> None]] @@ base

\* ---------------------------------------------------------------- a run
RunLocals == <<pageIdx, envIdx, colIdx, ml_env_upper, ml_source_fqdn, ml_object_type>>
Inputs == <<docs, ddl, config, resolver>>

\* column_mapper.py 162: resolved_env_fqdns_map.get(ml_env_upper) for a
\* page with these columns
EnvDetails(cols, env) ==
    LET resolved == ResolvedEnvFqdns(resolver, FirstSourceTable(cols))
    IN IF resolved = None THEN NoDetails ELSE resolved[1][env]

\* column_mapper.py 163-181: the environment is not left by `continue`
EnvUsable(cols, env) ==
    LET details == EnvDetails(cols, env)
        obj == <<details.fqdn, env, details.object_type>>
    IN /\ details # NoDetails
       /\ obj \in DOMAIN ml_ddl_cache
       /\ ml_ddl_cache[obj].current_extracted_ddl # <<>>
       /\ ml_ddl_cache[obj].current_ddl_hash # NULL
       /\ ExtractColumnsFromDdl(ml_ddl_cache[obj].current_extracted_ddl) # <<>>

\* the table_1 columns the run holds for a page
DocumentedOf(page_id) ==
    pages_to_map[CHOOSE i \in 1..Len(pages_to_map) : pages_to_map[i].page_id = page_id].columns

\* the scopes of the run whose column loop is entered, as
\* <<page_id, fqdn, environment, object_type>>
ProcessedScopes ==
    {<<pages_to_map[ij[1]].page_id,
       EnvDetails(pages_to_map[ij[1]].columns, CHECK_ENVIRONMENTS[ij[2]]).fqdn,
       CHECK_ENVIRONMENTS[ij[2]],
       EnvDetails(pages_to_map[ij[1]].columns, CHECK_ENVIRONMENTS[ij[2]]).object_type>> :
        ij \in {x \in (1..Len(pages_to_map)) \X (1..Len(CHECK_ENVIRONMENTS)) :
                  EnvUsable(pages_to_map[x[1]].columns, CHECK_ENVIRONMENTS[x[2]])}}

\* the rows without override of a processed scope whose target is absent
\* from the page's documented set
RemovedInRun ==
    {k \in DOMAIN store :
        /\ <<k[1], k[3], k[4], k[5]>> \in ProcessedScopes
        /\ k[2] \notin AllTargetNames(DocumentedOf(k[1]))
        /\ store[k].user_override = 0}

\* column_mapper.py 72-106: fetch the approved pages and cache the DDL rows
StartRun ==
    /\ pc = "idle"
    /\ now < MaxRuns
    /\ now' = now + 1
    /\ pages_to_map' = FetchPagesToMap(page_metadata, docs)
    /\ ml_ddl_cache' = ddl
    /\ pageIdx' = 1 /\ envIdx' = 0 /\ colIdx' = 0
    /\ ml_env_upper' = UNBOUND /\ ml_source_fqdn' = UNBOUND /\ ml_object_type' = UNBOUND
    /\ pc' = "page"
    /\ last' = [op |-> "start", key |-> None, before |-> store]
    /\ hist' = [hist EXCEPT !.failed = FALSE, !.prevFailed = hist.failed,
                            !.failedKeys = {},
                            !.start = IF hist.interrupted /\ ~hist.dirty THEN hist.start ELSE store,
                            !.retry = hist.interrupted /\ ~hist.dirty,
                            !.interrupted = FALSE,
                            !.approved = ApprovedPages(page_metadata)]
    /\ UNCHANGED <<store, Inputs, edits, failures>>
    /\ UNCHANGED <<table, writers, page_metadata, stages, ml_metadata>>

\* column_mapper.py 36-106: the start of a run from the configuration file;
\* a loader that raises or a strategy name without scorer ends the run
\* before the pages are fetched
StartupRun ==
    /\ pc = "idle"
    /\ now < MaxRuns
    /\ now' = now + 1
    /\ \E raw \in RawConfigs :
          LET loaded == LoadColumnMapperConfig(raw)
              fatal == \/ loaded = None
                       \/ UpperStrategy(loaded[1].match_strategy) \notin MapperStrategies
          IN /\ hist' = [hist EXCEPT !.failed = FALSE, !.prevFailed = hist.failed,
                                     !.failedKeys = {}, !.start = store, !.retry = FALSE,
                                     !.interrupted = FALSE, !.raw = raw,
                                     !.approved = ApprovedPages(page_metadata)]
             /\ IF fatal
                THEN /\ last' = [op |-> "config_error", key |-> None, before |-> store]
                     /\ UNCHANGED <<config, pc, pages_to_map, ml_ddl_cache, RunLocals>>
                ELSE /\ config' = [match_threshold |-> loaded[1].match_threshold.v,
                                   match_strategy |-> UpperStrategy(loaded[1].match_strategy),
                                   exact_match_only |-> loaded[1].exact_match_only]
                     /\ pages_to_map' = FetchPagesToMap(page_metadata, docs)
                     /\ ml_ddl_cache' = ddl
                     /\ pageIdx' = 1 /\ envIdx' = 0 /\ colIdx' = 0
                     /\ ml_env_upper' = UNBOUND /\ ml_source_fqdn' = UNBOUND
                     /\ ml_object_type' = UNBOUND
                     /\ pc' = "page"
                     /\ last' = [op |-> "start", key |-> None, before |-> store]
    /\ UNCHANGED <<store, docs, ddl, resolver, edits, failures>>
    /\ UNCHANGED <<table, writers, page_metadata, stages, ml_metadata>>

\* column_mapper.py 324-335: all pages done
EndRun ==
    /\ pc = "page"
    /\ pageIdx > Len(pages_to_map)
    /\ pc' = "idle"
    /\ last' = [op |-> "end", key |-> None, before |-> store]
    /\ hist' = [hist EXCEPT
                  !.end1 = hist.end2, !.end2 = store, !.runs = hist.runs + 1,
                  !.dirty = FALSE,
                  !.pair = hist.runs >= 1 /\ ~hist.dirty /\ ~hist.failed /\ ~hist.prevFailed,
                  !.removed = IF hist.failed THEN hist.removed
                              ELSE hist.removed \cup RemovedInRun]
    /\ UNCHANGED <<store, Inputs, pages_to_map, ml_ddl_cache, RunLocals, now, edits, failures>>
    /\ UNCHANGED <<table, writers, page_metadata, stages, ml_metadata>>

\* column_mapper.py 115-158: the page prologue; a page without source_table
\* or without resolver entry is left by `continue`
PageBegin ==
    /\ pc = "page"
    /\ pageIdx <= Len(pages_to_map)
    /\ LET resolved == ResolvedEnvFqdns(resolver, FirstSourceTable(PageRow.columns))
       IN IF resolved = None
          THEN /\ pageIdx' = pageIdx + 1
               /\ UNCHANGED <<pc, envIdx>>
          ELSE /\ pc' = "env"
               /\ envIdx' = 1
               /\ UNCHANGED pageIdx
    /\ last' = [op |-> "page", key |-> None, before |-> store]
    /\ UNCHANGED <<store, Inputs, pages_to_map, ml_ddl_cache, colIdx,
                   ml_env_upper, ml_source_fqdn, ml_object_type, now, edits, failures, hist>>
    /\ UNCHANGED <<table, writers, page_metadata, stages, ml_metadata>>

\* column_mapper.py 161-183: one iteration of the environment loop up to
\* the column loop; an environment without resolver entry, DDL, hash or
\* extracted column is left by `continue`
EnvBegin ==
    /\ pc = "env"
    /\ envIdx <= Len(CHECK_ENVIRONMENTS)
    /\ LET env == CHECK_ENVIRONMENTS[envIdx]
           details == EnvDetails(PageRow.columns, env)
           usable == EnvUsable(PageRow.columns, env)
       IN /\ ml_env_upper' = env
          /\ IF details = NoDetails
             THEN UNCHANGED <<ml_source_fqdn, ml_object_type>>
             ELSE /\ ml_source_fqdn' = details.fqdn
                  /\ ml_object_type' = details.object_type
          /\ IF usable /\ ToMap # <<>>
             THEN pc' = "col" /\ colIdx' = 1 /\ UNCHANGED envIdx
             ELSE envIdx' = envIdx + 1 /\ UNCHANGED <<pc, colIdx>>
    /\ last' = [op |-> "env", key |-> None, before |-> store]
    /\ UNCHANGED <<store, Inputs, pages_to_map, ml_ddl_cache, pageIdx, now, edits, failures, hist>>
    /\ UNCHANGED <<table, writers, page_metadata, stages, ml_metadata>>

\* the position after the current column
NextColumn ==
    IF colIdx < Len(ToMap)
    THEN colIdx' = colIdx + 1 /\ UNCHANGED <<pc, envIdx>>
    ELSE pc' = "env" /\ envIdx' = envIdx + 1 /\ UNCHANGED colIdx

ColumnFrame ==
    UNCHANGED <<Inputs, pages_to_map, ml_ddl_cache, pageIdx,
                ml_env_upper, ml_source_fqdn, ml_object_type, now, edits, failures, hist>>

\* column_mapper.py 225-230: the override guard
OverrideGuard ==
    /\ pc = "col"
    /\ LET existing == GetEntry(store, ColKey)
       IN /\ existing # None
          /\ existing[1].user_override = 1
    /\ store' = InsertOrUpdate(store, ColKey, CurrentMappingData)
    /\ last' = [op |-> "guard", key |-> Some(ColKey), before |-> store]
    /\ NextColumn
    /\ ColumnFrame
    /\ UNCHANGED <<table, writers, page_metadata, stages, ml_metadata>>

\* the hash-gate without the comparison of the hashes of line 236
HashGateOpen_IgnoresHash(existing) ==
    /\ existing # None
    /\ existing[1].mapping_status \in {"MAPPED_EXACT", "MAPPED_FUZZY"}

\* the hash-gate without the test of the status of line 237
HashGateOpen_IgnoresStatus(existing) ==
    /\ existing # None
    /\ existing[1].ml_source_ddl_hash_at_mapping = DdlInfo.current_ddl_hash

\* column_mapper.py 234-240: the hash-gate
HashGateOpen(existing) ==
    /\ existing # None
    /\ existing[1].ml_source_ddl_hash_at_mapping = DdlInfo.current_ddl_hash
    /\ existing[1].mapping_status \in {"MAPPED_EXACT", "MAPPED_FUZZY"}

HashGate ==
    /\ pc = "col"
    /\ LET existing == GetEntry(store, ColKey)
       IN /\ ~(existing # None /\ existing[1].user_override = 1)
          /\ HashGateOpen(existing)
    /\ store' = InsertOrUpdate(store, ColKey, CurrentMappingData)
    /\ last' = [op |-> "gate", key |-> Some(ColKey), before |-> store]
    /\ NextColumn
    /\ ColumnFrame
    /\ UNCHANGED <<table, writers, page_metadata, stages, ml_metadata>>

\* column_mapper.py 242-278: the fuzzy match and its write
FuzzyMatch ==
    /\ pc = "col"
    /\ LET existing == GetEntry(store, ColKey)
       IN /\ ~(existing # None /\ existing[1].user_override = 1)
          /\ ~HashGateOpen(existing)
    /\ store' = InsertOrUpdate(store, ColKey,
                    FuzzyMappingData(CurrentMappingData, ColDetail.source_field_name,
                        ExtractColumnsFromDdl(DdlInfo.current_extracted_ddl), config))
    /\ last' = [op |-> "fuzzy", key |-> Some(ColKey), before |-> store]
    /\ NextColumn
    /\ ColumnFrame
    /\ UNCHANGED <<table, writers, page_metadata, stages, ml_metadata>>

\* the orphan sweep without the user_override test of line 295
OrphanWrite_IgnoresOverride(st, key, t) ==
    InsertOrUpdate(st, key,
        [last_mapped_on |-> t, is_active |-> 0, user_override |-> 0,
         mapping_status |-> "INACTIVE_ORPHANED",
         notes |-> [kind |-> "orphaned", score |-> None,
                    source |-> None, column |-> None]])

\* the orphan sweep without the mapping_status of line 318
OrphanWrite_KeepsStatus(st, key, t) ==
    IF st[key].user_override = 1
    THEN InsertOrUpdate(st, key, [last_mapped_on |-> t, is_active |-> 1])
    ELSE InsertOrUpdate(st, key,
            [last_mapped_on |-> t, is_active |-> 0, user_override |-> 0,
             notes |-> [kind |-> "orphaned", score |-> None,
                        source |-> None, column |-> None]])

\* column_mapper.py 289-320: what the orphan sweep writes for one row
OrphanWrite(st, key, t) ==
    IF st[key].user_override = 1
    THEN InsertOrUpdate(st, key, [last_mapped_on |-> t, is_active |-> 1])
    ELSE InsertOrUpdate(st, key,
            [last_mapped_on |-> t, is_active |-> 0, user_override |-> 0,
             mapping_status |-> "INACTIVE_ORPHANED",
             notes |-> [kind |-> "orphaned", score |-> None,
                        source |-> None, column |-> None]])

\* column_mapper.py 283-287: the active rows of the scope named by the
\* locals left behind by the environment loop
SweepRows(st, page_id, fqdn, env, object_type) ==
    {k \in DOMAIN st : /\ k[1] = page_id /\ k[3] = fqdn /\ k[4] = env /\ k[5] = object_type
                       /\ st[k].is_active = 1}

\* column_mapper.py 280-320: the orphan sweep, run once when the
\* environment loop of the page has ended
OrphanSweep ==
    /\ pc = "env"
    /\ envIdx > Len(CHECK_ENVIRONMENTS)
    /\ LET names == AllTargetNames(PageRow.columns)
           rows == SweepRows(store, PageRow.page_id, ml_source_fqdn, ml_env_upper, ml_object_type)
           orphans == {k \in rows : k[2] \notin names}
       IN store' = [k \in DOMAIN store |->
                      IF k \in orphans THEN OrphanWrite(store, k, now)[k] ELSE store[k]]
    /\ pc' = "page"
    /\ pageIdx' = pageIdx + 1
    /\ last' = [op |-> "sweep", key |-> None, before |-> store]
    /\ UNCHANGED <<Inputs, pages_to_map, ml_ddl_cache, envIdx, colIdx,
                   ml_env_upper, ml_source_fqdn, ml_object_type, now, edits, failures, hist>>
    /\ UNCHANGED <<table, writers, page_metadata, stages, ml_metadata>>

\* column_mapper.py 321-322: an exception raised while a column is
\* processed (the read or the write of the mapping row fails) is caught by
\* the handler around the page body
UnitFails ==
    /\ pc = "col"
    /\ failures < MaxFailures
    /\ failures' = failures + 1
    /\ pc' = "page"
    /\ pageIdx' = pageIdx + 1
    /\ last' = [op |-> "except", key |-> Some(ColKey), before |-> store]
    /\ hist' = [hist EXCEPT !.failed = TRUE, !.failedKeys = @ \cup {ColKey}]
    /\ UNCHANGED <<store, Inputs, pages_to_map, ml_ddl_cache, envIdx, colIdx,
                   ml_env_upper, ml_source_fqdn, ml_object_type, now, edits>>
    /\ UNCHANGED <<table, writers, page_metadata, stages, ml_metadata>>

\* the process is stopped inside the column loop or between two
\* environments: no handler of the function catches it, the rows committed
\* so far stay (database_manager.py 358: commit per upsert)
Interrupt ==
    /\ pc \in {"col", "env"}
    /\ failures < MaxFailures
    /\ failures' = failures + 1
    /\ pc' = "idle"
    /\ last' = [op |-> "interrupt", key |-> None, before |-> store]
    /\ hist' = [hist EXCEPT !.failed = TRUE, !.interrupted = TRUE, !.dirty = FALSE]
    /\ UNCHANGED <<store, Inputs, pages_to_map, ml_ddl_cache, RunLocals, now, edits>>
    /\ UNCHANGED <<table, writers, page_metadata, stages, ml_metadata>>

\* ------------------------------------------------- changes between runs
EditFrame ==
    /\ pc = "idle"
    /\ 0 < now /\ now < MaxRuns
    /\ edits < MaxEdits
    /\ edits' = edits + 1
    /\ UNCHANGED <<config, resolver, pc, pages_to_map, ml_ddl_cache, RunLocals, now, failures>>

\* the page is parsed again with another table_1
ChangeDoc ==
    /\ EditFrame
    /\ \E p \in Pages :
       \E v \in DocVersionsOf(p) :
          /\ v # docs[p]
          /\ docs' = [docs EXCEPT ![p] = v]
    /\ last' = [op |-> "doc", key |-> None, before |-> store]
    /\ hist' = [hist EXCEPT !.dirty = TRUE]
    /\ UNCHANGED <<store, ddl>>
    /\ UNCHANGED <<table, writers, page_metadata, stages, ml_metadata>>

\* the warehouse object is checked again with another definition
ChangeDdl ==
    /\ EditFrame
    /\ \E o \in DOMAIN ddl, v \in DdlVersions :
          /\ v # ddl[o]
          /\ ddl' = [ddl EXCEPT ![o] = v]
    /\ last' = [op |-> "ddl", key |-> None, before |-> store]
    /\ hist' = [hist EXCEPT !.dirty = TRUE]
    /\ UNCHANGED <<store, docs>>
    /\ UNCHANGED <<table, writers, page_metadata, stages, ml_metadata>>

\* the columns a user picks by hand
HumanColumns == {<<"C", "D">>}

\* a user edits a row of confluence_ml_column_map: sets user_override and
\* the matched column, and marks the status or leaves it
HumanOverride ==
    /\ EditFrame
    /\ \E k \in DOMAIN store, col \in HumanColumns :
       \E status \in {"MAPPED_USER_OVERRIDE", store[k].mapping_status} :
          /\ store[k].user_override = 0
          /\ store' = [store EXCEPT ![k] =
                          [@ EXCEPT !.user_override = 1,
                                    !.matched_ml_column_name = Some(col),
                                    !.mapping_status = status]]
          /\ last' = [op |-> "human", key |-> Some(k), before |-> store]
          /\ hist' = [hist EXCEPT !.dirty = TRUE,
                                  !.human = [j \in DOMAIN hist.human \cup {k} |-> store'[j]]]
    /\ UNCHANGED <<docs, ddl>>
    /\ UNCHANGED <<table, writers, page_metadata, stages, ml_metadata>>

Next ==
    \/ StartRun
    \/ PageBegin
    \/ EnvBegin
    \/ OverrideGuard
    \/ HashGate
    \/ FuzzyMatch
    \/ UnitFails
    \/ OrphanSweep
    \/ EndRun
    \/ ChangeDoc
    \/ ChangeDdl
    \/ HumanOverride

Spec == Init /\ [][Next]_vars

\* the runs in which no unit raises, under the resolver map whose last
\* environment resolves
InitNoFailure ==
    /\ Init
    /\ resolver = [S1 |-> ResolverLastEnv]

NextNoFailure ==
    \/ StartRun
    \/ PageBegin
    \/ EnvBegin
    \/ OverrideGuard
    \/ HashGate
    \/ FuzzyMatch
    \/ OrphanSweep
    \/ EndRun
    \/ ChangeDoc
    \/ ChangeDdl
    \/ HumanOverride

SpecNoFailure == InitNoFailure /\ [][NextNoFailure]_vars

\* the runs that can be stopped and started again
NextRetry ==
    \/ StartRun
    \/ PageBegin
    \/ EnvBegin
    \/ OverrideGuard
    \/ HashGate
    \/ FuzzyMatch
    \/ OrphanSweep
    \/ EndRun
    \/ Interrupt
    \/ ChangeDoc
    \/ ChangeDdl
    \/ HumanOverride

SpecRetry == InitNoFailure /\ [][NextRetry]_vars

\* the runs started from the configuration file
NextStartup ==
    \/ StartupRun
    \/ PageBegin
    \/ EnvBegin
    \/ HashGate
    \/ FuzzyMatch
    \/ OrphanSweep
    \/ EndRun

SpecStartup == InitNoFailure /\ [][NextStartup]_vars

\* the failure-free runs over a page whose columns name two source tables,
\* each with its own object in DEV
InitMixedSources ==
    /\ store = EmptyStore
    /\ docs = [p \in Pages |-> IF p = 1 THEN DocMixed ELSE InitialDoc(p)]
    /\ resolver = [n \in {"S1", "S2"} |-> IF n = "S1" THEN ResolverLastEnv ELSE ResolverOther]
    /\ ddl = [o \in ObjectsOf(resolver) |-> IF o[1] = "F3" THEN DdlV2 ELSE DdlV1]
    /\ config \in Configs
    /\ pc = "idle"
    /\ pages_to_map = <<>>
    /\ ml_ddl_cache = ddl
    /\ pageIdx = 0 /\ envIdx = 0 /\ colIdx = 0
    /\ ml_env_upper = UNBOUND /\ ml_source_fqdn = UNBOUND /\ ml_object_type = UNBOUND
    /\ now = 0
    /\ edits = 0 /\ failures = 0
    /\ last = NoStep
    /\ hist = [end1 |-> EmptyStore, end2 |-> EmptyStore, runs |-> 0, dirty |-> FALSE,
               failed |-> FALSE, prevFailed |-> FALSE, pair |-> FALSE,
               failedKeys |-> {}, human |-> EmptyStore, removed |-> {},
               start |-> EmptyStore, interrupted |-> FALSE, retry |-> FALSE,
               raw |-> RawDefault, approved |-> {}]
    /\ table = <<>>
    /\ writers = [w \in {1, 2} |-> [pc |-> "idle", dict |-> None, exists |-> FALSE,
                                      done |-> None, n |-> 0]]
    /\ page_metadata = [p \in Pages |-> ParsedRow]
    /\ stages = IdleStages
    /\ ml_metadata = <<>>

SpecMixedSources == InitMixedSources /\ [][NextNoFailure]_vars

\* ------------------------------------------- the table as sqlite keeps it
\* a row is [key |-> composite primary key, cols |-> the other columns]
\* database_manager.py 330-331: SELECT * FROM table WHERE pk
SelectByPk(t, key) == {i \in 1..Len(t) : t[i].key = key}

\* the existence test skipped
RowExists_Never(t, key) == FALSE

\* database_manager.py 331-333: exists = cursor.fetchone()
RowExists(t, key) == SelectByPk(t, key) # {}

\* database_manager.py 334-345: UPDATE table SET <columns of the dict> WHERE pk
SqlUpdate(t, key, d) ==
    [i \in 1..Len(t) |->
        IF t[i].key = key
        THEN [key |-> key,
              cols |-> [col \in NonPkColumns |->
                          IF col \in DOMAIN d THEN d[col] ELSE t[i].cols[col]]]
        ELSE t[i]]

\* the INSERT with last_mapped_on of the dict left out
SqlInsert_NoTimestamp(t, key, d) ==
    IF SelectByPk(t, key) # {} THEN t
    ELSE Append(t, [key |-> key,
                    cols |-> [col \in NonPkColumns |->
                                IF col = "last_mapped_on" THEN 0
                                ELSE IF col \in DOMAIN d THEN d[col] ELSE NullOf(col)]])

\* the INSERT on a table without its PRIMARY KEY
SqlInsert_NoPrimaryKey(t, key, d) ==
    Append(t, [key |-> key,
               cols |-> [col \in NonPkColumns |->
                           IF col \in DOMAIN d THEN d[col] ELSE NullOf(col)]])

\* database_manager.py 346-357 under the PRIMARY KEY of lines 107-131: the
\* INSERT of a key the table holds raises and leaves the table as it was
SqlInsert(t, key, d) ==
    IF SelectByPk(t, key) # {} THEN t
    ELSE Append(t, [key |-> key,
                    cols |-> [col \in NonPkColumns |->
                                IF col \in DOMAIN d THEN d[col] ELSE NullOf(col)]])

\* DatabaseManager.insert_or_update_confluence_ml_column_map on the rows
InsertOrUpdateRows(t, key, d) ==
    IF RowExists(t, key) THEN SqlUpdate(t, key, d) ELSE SqlInsert(t, key, d)

\* the composite keys the callers pass
TableKeys == {<<1, "X", "F1", "DEV", "TABLE">>, <<2, "X", "F1", "DEV", "TABLE">>}

\* column_mapper.py 205-278: the dicts of the column loop
MappingDicts ==
    {[last_mapped_on |-> 1, ml_source_ddl_hash_at_mapping |-> "h1", is_active |-> 1,
      user_override |-> 0, notes |-> EmptyNote],
     FuzzyMappingData([last_mapped_on |-> 1, ml_source_ddl_hash_at_mapping |-> "h1",
                       is_active |-> 1, user_override |-> 0, notes |-> EmptyNote],
                      <<"a", "b">>, <<<<"A", "B">>>>, CHOOSE c \in Configs : ~c.exact_match_only),
     FuzzyMappingData([last_mapped_on |-> 1, ml_source_ddl_hash_at_mapping |-> "h2",
                       is_active |-> 1, user_override |-> 0, notes |-> EmptyNote],
                      <<"a", "b">>, <<<<"C", "D">>>>, CHOOSE c \in Configs : ~c.exact_match_only)}

\* column_mapper.py 298-320: the dicts of the orphan sweep
OrphanDicts ==
    {[last_mapped_on |-> 1, is_active |-> 1],
     [last_mapped_on |-> 1, is_active |-> 0, user_override |-> 0,
      mapping_status |-> "INACTIVE_ORPHANED",
      notes |-> [kind |-> "orphaned", score |-> None, source |-> None, column |-> None]]}

TableFrame ==
    UNCHANGED <<store, docs, ddl, config, resolver, pc, pages_to_map, ml_ddl_cache,
                pageIdx, envIdx, colIdx, ml_env_upper, ml_source_fqdn, ml_object_type,
                now, edits, failures, hist, writers, page_metadata, stages, ml_metadata>>

\* column_mapper.py 229, 239, 278: an upsert of the column loop; the first
\* write of a key is the one of line 278, which carries a status
UpsertMapping ==
    /\ \E key \in TableKeys, d \in MappingDicts :
          /\ "mapping_status" \in DOMAIN d \/ RowExists(table, key)
          /\ table' = InsertOrUpdateRows(table, key, d)
          /\ last' = [op |-> "upsert", key |-> Some(key), before |-> table, dict |-> d]
    /\ TableFrame

\* column_mapper.py 289-320: an upsert of the orphan sweep, for a row its
\* SELECT returned
UpsertOrphan ==
    /\ \E key \in TableKeys, d \in OrphanDicts :
          /\ RowExists(table, key)
          /\ table' = InsertOrUpdateRows(table, key, d)
          /\ last' = [op |-> "upsert", key |-> Some(key), before |-> table, dict |-> d]
    /\ TableFrame

InitTable ==
    /\ InitNoFailure
    /\ ~config.exact_match_only

NextTable ==
    \/ UpsertMapping
    \/ UpsertOrphan

SpecTable == InitTable /\ [][NextTable]_vars

\* --------------------------------------- the fuzzy match on its own inputs
\* documented source_field_names and physical column names as written
MatchSources == {<<"a", "b">>, <<"A", "b">>, <<"a", "c">>, <<"c", "d">>, <<"a">>,
                 <<"a", "b", "c">>}
MatchDdlNames == {<<"A", "b">>, <<"a", "c">>, <<"C", "D">>, <<"b", "a", "d">>,
                  <<"a", "b", "c">>}
MatchDdlTexts ==
    {<<n>> : n \in MatchDdlNames}
        \cup {<<n[1], n[2]>> : n \in {x \in MatchDdlNames \X MatchDdlNames : x[1] # x[2]}}

\* config.py 246-254: the strategies and thresholds load_column_mapper_config admits
MatchStrategies == {"RATIO", "PARTIAL_RATIO", "TOKEN_SORT_RATIO", "TOKEN_SET_RATIO"}
MatchThresholds == {0, 50, 51, 80, 81, 100}
MatchConfigs ==
    [match_threshold : MatchThresholds, match_strategy : MatchStrategies,
     exact_match_only : BOOLEAN]

\* column_mapper.py 176-177, 205-223, 242-278: the dict the fuzzy match
\* builds for one documented column against one DDL text
MatchColumn ==
    /\ last = NoStep
    /\ \E source \in MatchSources, text \in MatchDdlTexts, cfg \in MatchConfigs :
          last' = [op |-> "match", key |-> None, before |-> EmptyStore,
                   source |-> source, text |-> text, cfg |-> cfg,
                   choices |-> ExtractColumnsFromDdl(text),
                   data |-> FuzzyMappingData(
                               [last_mapped_on |-> 1, ml_source_ddl_hash_at_mapping |-> "h1",
                                is_active |-> 1, user_override |-> 0, notes |-> EmptyNote],
                               source, ExtractColumnsFromDdl(text), cfg)]
    /\ TableFrame
    /\ UNCHANGED <<table, writers, page_metadata, stages, ml_metadata>>

NextMatch == MatchColumn

SpecMatch == InitTable /\ [][NextMatch]_vars

\* ------------------------------------------- a whole run as one function
\* column_mapper.py 200-278: what the visit of one documented column makes
\* of the table
ColumnResult(st, key, info, source_field_name, cfg, t) ==
    LET existing == GetEntry(st, key)
        base == [last_mapped_on |-> t,
                 ml_source_ddl_hash_at_mapping |-> info.current_ddl_hash,
                 is_active |-> 1, user_override |-> 0, notes |-> EmptyNote]
    IN IF existing # None /\ existing[1].user_override = 1
       THEN InsertOrUpdate(st, key, base)
       ELSE IF /\ existing # None
               /\ existing[1].ml_source_ddl_hash_at_mapping = info.current_ddl_hash
               /\ existing[1].mapping_status \in {"MAPPED_EXACT", "MAPPED_FUZZY"}
       THEN InsertOrUpdate(st, key, base)
       ELSE InsertOrUpdate(st, key,
                FuzzyMappingData(base, source_field_name,
                    ExtractColumnsFromDdl(info.current_extracted_ddl), cfg))

RECURSIVE ColumnLoopResult(_, _, _, _, _, _, _, _)
\* column_mapper.py 186-278: the column loop of one environment, from
\* column i on
ColumnLoopResult(st, page_id, tomap, i, fqdn, env, object_type, t) ==
    IF i > Len(tomap) THEN st
    ELSE ColumnLoopResult(
            ColumnResult(st, <<page_id, tomap[i].target_field_name, fqdn, env, object_type>>,
                         ml_ddl_cache[<<fqdn, env, object_type>>],
                         tomap[i].source_field_name, config, t),
            page_id, tomap, i + 1, fqdn, env, object_type, t)

RECURSIVE EnvLoopResult(_, _, _, _)
\* column_mapper.py 161-278: the environment loop from environment e on;
\* acc holds the table and the locals ml_source_fqdn and ml_object_type
EnvLoopResult(acc, page, e, t) ==
    IF e > Len(CHECK_ENVIRONMENTS) THEN acc
    ELSE LET env == CHECK_ENVIRONMENTS[e]
             details == EnvDetails(page.columns, env)
         IN IF details = NoDetails THEN EnvLoopResult(acc, page, e + 1, t)
            ELSE EnvLoopResult(
                    [st |-> IF EnvUsable(page.columns, env)
                            THEN ColumnLoopResult(acc.st, page.page_id,
                                     ColumnsToMap(page.columns), 1,
                                     details.fqdn, env, details.object_type, t)
                            ELSE acc.st,
                     fqdn |-> details.fqdn, object_type |-> details.object_type],
                    page, e + 1, t)

\* column_mapper.py 124-320: the body of the page loop, the orphan sweep
\* with the locals the environment loop leaves behind
PageResult(acc, page, t) ==
    IF ResolvedEnvFqdns(resolver, FirstSourceTable(page.columns)) = None THEN acc
    ELSE LET after == EnvLoopResult(acc, page, 1, t)
             rows == SweepRows(after.st, page.page_id, after.fqdn,
                               CHECK_ENVIRONMENTS[Len(CHECK_ENVIRONMENTS)], after.object_type)
             orphans == {k \in rows : k[2] \notin AllTargetNames(page.columns)}
         IN [after EXCEPT !.st = [k \in DOMAIN after.st |->
                                    IF k \in orphans THEN OrphanWrite(after.st, k, t)[k]
                                    ELSE after.st[k]]]

RECURSIVE PageLoopResult(_, _, _)
PageLoopResult(acc, i, t) ==
    IF i > Len(pages_to_map) THEN acc
    ELSE PageLoopResult(PageResult(acc, pages_to_map[i], t), i + 1, t)

\* column_mapper.py 115-322: the table after a run over the fetched pages
\* and DDL rows that nothing stops, started on table st at time t
RunResult(st, t) ==
    PageLoopResult([st |-> st, fqdn |-> UNBOUND, object_type |-> UNBOUND], 1, t).st

\* ------------------------------------ a user takes over an orphaned row
\* a user sets user_override and a column on a row the sweep deactivated,
\* and leaves its status and is_active as they are
HumanOverrideOrphaned ==
    /\ pc = "idle"
    /\ 0 < now /\ now < MaxRuns
    /\ \E k \in DOMAIN store, col \in HumanColumns :
          /\ store[k].user_override = 0
          /\ store[k].mapping_status = "INACTIVE_ORPHANED"
          /\ store' = [store EXCEPT ![k] =
                          [@ EXCEPT !.user_override = 1,
                                    !.matched_ml_column_name = Some(col)]]
          /\ last' = [op |-> "human", key |-> Some(k), before |-> store]
          /\ hist' = [hist EXCEPT !.dirty = TRUE,
                                  !.human = [j \in DOMAIN hist.human \cup {k} |-> store'[j]]]
    /\ UNCHANGED <<Inputs, pc, pages_to_map, ml_ddl_cache, RunLocals, now, edits, failures>>
    /\ UNCHANGED <<table, writers, page_metadata, stages, ml_metadata>>

NextOrphanOverride ==
    \/ StartRun
    \/ PageBegin
    \/ EnvBegin
    \/ OverrideGuard
    \/ HashGate
    \/ FuzzyMatch
    \/ OrphanSweep
    \/ EndRun
    \/ ChangeDoc
    \/ HumanOverrideOrphaned

SpecOrphanOverride == InitNoFailure /\ [][NextOrphanOverride]_vars

\* ------------------------------------ two connections upsert the same key
\* the composite key both writers pass, and the dicts they pass
WriterKey == <<1, "X", "F1", "DEV", "TABLE">>
WriterDicts == MappingDicts \cup OrphanDicts

WriterFrame ==
    UNCHANGED <<store, docs, ddl, config, resolver, pc, pages_to_map, ml_ddl_cache,
                pageIdx, envIdx, colIdx, ml_env_upper, ml_source_fqdn, ml_object_type,
                now, edits, failures, hist, page_metadata, stages, ml_metadata>>

\* database_manager.py 330-332: the SELECT of the upsert and its fetchone;
\* the first write of a key is one that carries a status
WriterSelect ==
    /\ \E w \in DOMAIN writers, d \in WriterDicts :
          /\ writers[w].pc = "idle"
          /\ writers[w].n < MaxRuns
          /\ "mapping_status" \in DOMAIN d \/ RowExists(table, WriterKey)
          /\ writers' = [writers EXCEPT ![w] =
                            [@ EXCEPT !.pc = "read", !.dict = Some(d),
                                      !.exists = RowExists(table, WriterKey)]]
          /\ last' = [op |-> "select", key |-> Some(WriterKey), before |-> table]
    /\ WriterFrame
    /\ UNCHANGED table

\* database_manager.py 334-358: the UPDATE or the INSERT the SELECT chose, and
\* the commit; an INSERT of a key the table holds by now raises
WriterWrite ==
    /\ \E w \in DOMAIN writers :
          /\ writers[w].pc = "read"
          /\ LET d == writers[w].dict[1]
                 raises == ~writers[w].exists /\ SelectByPk(table, WriterKey) # {}
             IN /\ table' = IF writers[w].exists THEN SqlUpdate(table, WriterKey, d)
                            ELSE SqlInsert(table, WriterKey, d)
                /\ writers' = [writers EXCEPT ![w] =
                                  [@ EXCEPT !.pc = "idle", !.dict = None, !.n = @ + 1,
                                            !.done = IF raises THEN @ ELSE Some(d)]]
                /\ last' = [op |-> "write", key |-> Some(WriterKey), before |-> table,
                            writer |-> w, dict |-> d, raises |-> raises]
    /\ WriterFrame

NextWriters ==
    \/ WriterSelect
    \/ WriterWrite

SpecWriters == InitTable /\ [][NextWriters]_vars

\* --------------------------------- the inputs change while a run is going
\* another process parses a page again or checks a warehouse object again
\* between two statements of the mapper run
RunningFrame ==
    /\ pc # "idle"
    /\ edits < MaxEdits
    /\ edits' = edits + 1
    /\ hist' = [hist EXCEPT !.dirty = TRUE]
    /\ UNCHANGED <<store, config, resolver, pc, pages_to_map, ml_ddl_cache, RunLocals,
                   now, failures>>
    /\ UNCHANGED <<table, writers, page_metadata, stages, ml_metadata>>

ChangeDocDuringRun ==
    /\ RunningFrame
    /\ \E p \in Pages :
       \E v \in DocVersionsOf(p) :
          /\ v # docs[p]
          /\ docs' = [docs EXCEPT ![p] = v]
    /\ last' = [op |-> "doc", key |-> None, before |-> store]
    /\ UNCHANGED ddl

ChangeDdlDuringRun ==
    /\ RunningFrame
    /\ \E o \in DOMAIN ddl, v \in DdlVersions :
          /\ v # ddl[o]
          /\ ddl' = [ddl EXCEPT ![o] = v]
    /\ last' = [op |-> "ddl", key |-> None, before |-> store]
    /\ UNCHANGED docs

NextSnapshot ==
    \/ StartRun
    \/ PageBegin
    \/ EnvBegin
    \/ HashGate
    \/ FuzzyMatch
    \/ OrphanSweep
    \/ EndRun
    \/ ChangeDocDuringRun
    \/ ChangeDdlDuringRun

SpecSnapshot == InitNoFailure /\ [][NextSnapshot]_vars

\* ------------------------------------------- the resolver file and its loader
\* str.upper() of the names of the resolver file
UpperWord(w) ==
    CASE w = "s1" -> "S1"
      [] w = "s2" -> "S2"
      [] w = "x" -> "X"
      [] w = "dev" -> "DEV"
      [] w = "pru" -> "PRU"
      [] w = "db.sc.f1" -> "DB.SC.F1"
      [] w = "db.sc.f2" -> "DB.SC.F2"
      [] w = "view" -> "VIEW"
      [] OTHER -> w

\* the values of 'defaults', 'specific_environments' (in the order of the
\* file) and 'aliases' an entry of source_fqdn_resolver.json can have;
\* <<>> is a key the entry does not have
RawDefaults ==
    {<<>>, <<[environments |-> <<"dev", "PRU">>, fqdn |-> "db.sc.f1", object_type |-> "TABLE"]>>}
RawSpecific ==
    {<<>>, <<[env |-> "DEV", fqdn |-> "db.sc.f2", object_type |-> "view"]>>,
     <<[env |-> "pru", fqdn |-> "DB.SC.F2", object_type |-> "TABLE"]>>}
RawAliases == {<<>>, <<"x">>, <<"X", "s1">>}
RawEntries ==
    [key : {"s1", "S1", "s2"}, defaults : RawDefaults, specific_environments : RawSpecific,
     aliases : RawAliases]
RawResolverFiles ==
    {<<e>> : e \in RawEntries} \cup {<<p[1], p[2]>> : p \in RawEntries \X RawEntries}

\* config.py 150-171: the environments of 'defaults'
DefaultEnvFqdns(entry) ==
    IF entry.defaults = <<>> THEN [e \in {} |-> NoDetails]
    ELSE LET d == entry.defaults[1]
         IN [e \in {UpperWord(d.environments[i]) : i \in 1..Len(d.environments)} |->
                [fqdn |-> UpperWord(d.fqdn), object_type |-> UpperWord(d.object_type)]]

RECURSIVE SpecificEnvFqdns(_, _, _)
\* config.py 173-193: the entries of 'specific_environments', a later one
\* over an earlier one of the same upper-cased environment
SpecificEnvFqdns(entry, i, acc) ==
    IF i > Len(entry.specific_environments) THEN acc
    ELSE LET sp == entry.specific_environments[i]
         IN SpecificEnvFqdns(entry, i + 1,
                (UpperWord(sp.env) :> [fqdn |-> UpperWord(sp.fqdn),
                                       object_type |-> UpperWord(sp.object_type)]) @@ acc)

\* the environment map with 'defaults' written over 'specific_environments'
CanonicalEnvFqdns_DefaultsWin(entry) ==
    DefaultEnvFqdns(entry) @@ SpecificEnvFqdns(entry, 1, [e \in {} |-> NoDetails])

\* config.py 148-193: current_canonical_env_fqdns, 'specific_environments'
\* written over 'defaults'
CanonicalEnvFqdns(entry) ==
    SpecificEnvFqdns(entry, 1, [e \in {} |-> NoDetails]) @@ DefaultEnvFqdns(entry)

\* the test of line 215-216 left out
AliasConflict_Never(map, alias_upper, env_fqdns) == FALSE

\* config.py 215-216: the alias is in the map with another environment map
AliasConflict(map, alias_upper, env_fqdns) ==
    alias_upper \in DOMAIN map /\ map[alias_upper] # env_fqdns

RECURSIVE AddAliases(_, _, _, _)
\* config.py 210-222: the aliases of one entry; None when a conflict raises
AddAliases(map, aliases, i, env_fqdns) ==
    IF i > Len(aliases) THEN Some(map)
    ELSE IF AliasConflict(map, UpperWord(aliases[i]), env_fqdns) THEN None
    ELSE AddAliases((UpperWord(aliases[i]) :> env_fqdns) @@ map, aliases, i + 1, env_fqdns)

RECURSIVE LoadFqdnResolverFrom(_, _, _)
\* config.py 141-224: the loop over the canonical entries; None when it raises
LoadFqdnResolverFrom(file, i, map) ==
    IF i > Len(file) THEN Some(map)
    ELSE LET env_fqdns == CanonicalEnvFqdns(file[i])
             key_upper == UpperWord(file[i].key)
         IN IF DOMAIN env_fqdns = {} THEN None
            ELSE IF key_upper \in DOMAIN map THEN None
            ELSE LET with_aliases == AddAliases((key_upper :> env_fqdns) @@ map,
                                                file[i].aliases, 1, env_fqdns)
                 IN IF with_aliases = None THEN None
                    ELSE LoadFqdnResolverFrom(file, i + 1, with_aliases[1])

\* config.load_fqdn_resolver
LoadFqdnResolver(file) == LoadFqdnResolverFrom(file, 1, [k \in {} |-> NoDetails])

\* config.py 102-224: the resolver file is loaded
LoadResolver ==
    /\ last = NoStep
    /\ \E file \in RawResolverFiles :
          last' = [op |-> "resolver", key |-> None, before |-> EmptyStore,
                   file |-> file, result |-> LoadFqdnResolver(file)]
    /\ TableFrame
    /\ UNCHANGED <<table, writers, page_metadata, stages, ml_metadata>>

NextResolver == LoadResolver

SpecResolver == InitTable /\ [][NextResolver]_vars

\* ======================================================= the properties
\* the statement blocks of a run that write mapping rows
MapperWriteOps == {"guard", "gate", "fuzzy", "sweep"}

\* the rows the last statement block wrote
Written == {k \in DOMAIN store : k \notin DOMAIN last.before \/ last.before[k] # store[k]}

\* C1 (no unit of any run fails): a row whose user_override was set by a human edit keeps the
\* matched_column, match_score and match_strategy of that edit through all
\* later mapper runs, whatever happens to the DDL and its columns.
C1_OverrideInvariance ==
    failures = 0 =>
    \A k \in DOMAIN hist.human :
        /\ store[k].matched_ml_column_name = hist.human[k].matched_ml_column_name
        /\ store[k].match_percentage = hist.human[k].match_percentage
        /\ store[k].match_strategy = hist.human[k].match_strategy

\* C2 (no unit of any run fails): a row with user_override = 1 before the override guard or the orphan
\* sweep visits it has user_override = 1 afterwards.
C2_OverrideFlagKept ==
    failures = 0 /\ last.op \in {"guard", "sweep"} =>
        \A k \in DOMAIN last.before :
            last.before[k].user_override = 1 => store[k].user_override = 1

\* C3 (no unit of any run fails): once a row has user_override = 1 and status MAPPED_USER_OVERRIDE, no
\* sequence of mapper runs changes its status.
C3_UserOverrideTerminal ==
    failures = 0 =>
    \A k \in DOMAIN hist.human :
        hist.human[k].mapping_status = "MAPPED_USER_OVERRIDE"
            => store[k].mapping_status = "MAPPED_USER_OVERRIDE"

\* C4 (no unit of any run fails): after a statement block of a run has visited a row, user_override = 1
\* on that row implies status MAPPED_USER_OVERRIDE.
C4_OverrideImpliesStatus ==
    failures = 0 /\ last.op \in MapperWriteOps =>
        \A k \in Written :
            store[k].user_override = 1 => store[k].mapping_status = "MAPPED_USER_OVERRIDE"

\* a store with the audit timestamp blanked
WithoutTimestamp(st) == [k \in DOMAIN st |-> [st[k] EXCEPT !.last_mapped_on = 0]]

\* C5: two failure-free runs in succession with no change of documents, DDL
\* or rows in between leave every row equal in all columns but
\* last_mapped_on.
C5_Idempotence ==
    hist.pair => WithoutTimestamp(hist.end2) = WithoutTimestamp(hist.end1)

\* C6 as stated (no unit of any run fails): ml_source_ddl_hash_at_mapping of a row changes only in a
\* fuzzy-match step for that row; the override guard, the hash-gate and the
\* orphan sweep never change it.
C6_HashOnlyOnFuzzyMatch ==
    failures = 0 =>
    \A k \in DOMAIN last.before :
        store[k].ml_source_ddl_hash_at_mapping # last.before[k].ml_source_ddl_hash_at_mapping
            => last.op = "fuzzy" /\ last.key = Some(k)

\* C6 amended: ml_source_ddl_hash_at_mapping of a row changes only in a step
\* in which the fuzzy match ran for that row or the override guard fired for
\* it; the hash-gate and the orphan sweep never change it.
C6_HashOnlyOnMatchOrGuard ==
    \A k \in DOMAIN last.before :
        store[k].ml_source_ddl_hash_at_mapping # last.before[k].ml_source_ddl_hash_at_mapping
            => last.op \in {"fuzzy", "guard"} /\ last.key = Some(k)

\* the override guard has refreshed the hash of an overridden row after a
\* DDL change
C6_Witness ==
    /\ last.op = "guard"
    /\ last.before[last.key[1]].user_override = 1
    /\ store[last.key[1]].ml_source_ddl_hash_at_mapping
         # last.before[last.key[1]].ml_source_ddl_hash_at_mapping

\* C7 (no unit of the run fails): at the end of a run, in every scope whose
\* column loop was entered, every row without override whose target is
\* absent from the page's documented set is inactive with status
\* INACTIVE_ORPHANED.
C7_OrphansOfEveryScopeDeactivated ==
    last.op = "end" /\ failures = 0 =>
        \A k \in RemovedInRun :
            store[k].is_active = 0 /\ store[k].mapping_status = "INACTIVE_ORPHANED"

\* the composite keys of the units of the run: every column marked for
\* inclusion, in every scope whose column loop is entered
UnitsOfRun ==
    UNION {{<<sc[1], ColumnsToMap(DocumentedOf(sc[1]))[i].target_field_name, sc[2], sc[3], sc[4]>> :
                i \in 1..Len(ColumnsToMap(DocumentedOf(sc[1])))} : sc \in ProcessedScopes}

\* C8: at the end of a run every unit other than the ones that raised has
\* been processed in that run: its row exists and carries the run's
\* timestamp.
C8_FailureIsolation ==
    last.op = "end" =>
        \A k \in UnitsOfRun \ hist.failedKeys :
            k \in DOMAIN store /\ store[k].last_mapped_on = now

\* C9: a statement block of a run leaves every column but last_mapped_on of
\* a row with user_override = 1 whose target is absent from the page's
\* documented set as it was, so the row stays active with its matched
\* column, status and override.
C9_OverrideMaskedOrphan ==
    last.op \in MapperWriteOps =>
        \A k \in DOMAIN last.before :
            (/\ last.before[k].user_override = 1
             /\ k[2] \notin AllTargetNames(DocumentedOf(k[1])))
            => store[k] = [last.before[k] EXCEPT !.last_mapped_on = store[k].last_mapped_on]

\* the orphan sweep has met an active overridden row whose target left the
\* documented set, and refreshed its timestamp
C9_Witness ==
    /\ last.op = "sweep"
    /\ \E k \in Written :
          /\ last.before[k].user_override = 1
          /\ last.before[k].is_active = 1
          /\ k[2] \notin AllTargetNames(DocumentedOf(k[1]))
          /\ store[k].is_active = 1
          /\ store[k].matched_ml_column_name = Some(<<"C", "D">>)

AutomaticStatuses ==
    {"MAPPED_EXACT", "MAPPED_FUZZY", "UNMAPPED_NOT_EXACT", "UNMAPPED_LOW_SCORE"}

\* C10 (no unit of any run fails): a mapped row without override whose
\* target left the documented set is inactive with status INACTIVE_ORPHANED
\* at the end of the next run; once the target is documented and included
\* again, the visit of the row is a fuzzy match, never the hash-gate, and
\* leaves it active with an automatic status.
C10_OrphanRoundTrip ==
    failures = 0 =>
        /\ last.op = "end" =>
              \A k \in RemovedInRun :
                  (/\ k \in DOMAIN hist.end1
                   /\ hist.end1[k].mapping_status \in {"MAPPED_EXACT", "MAPPED_FUZZY"})
                      => /\ store[k].is_active = 0
                         /\ store[k].mapping_status = "INACTIVE_ORPHANED"
        /\ (last.op \in {"gate", "fuzzy"} /\ last.key[1] \in hist.removed) =>
              /\ last.op = "fuzzy"
              /\ store[last.key[1]].is_active = 1
              /\ store[last.key[1]].mapping_status \in AutomaticStatuses

\* the row's target is a column of the page's table_1 that is not marked
\* add_source_to_target
DocumentedNotIncluded(k) ==
    LET cols == DocumentedOf(k[1])
    IN /\ \E i \in 1..Len(cols) : cols[i].target_field_name = k[2]
       /\ \A i \in 1..Len(cols) :
             cols[i].target_field_name = k[2]
                => ~InterpretConfluenceBooleanString(cols[i].add_source_to_target)

\* C11: no statement block of a run, the orphan sweep included, changes
\* is_active or the status of a row whose target is still documented on the
\* page but no longer marked for inclusion.
C11_ExcludedColumnNotOrphaned ==
    last.op \in MapperWriteOps =>
        \A k \in DOMAIN last.before :
            DocumentedNotIncluded(k)
                => /\ store[k].is_active = last.before[k].is_active
                   /\ store[k].mapping_status = last.before[k].mapping_status

\* the orphan sweep has queried a scope that holds an active mapped row
\* whose target is documented but excluded, and left it active
C11_Witness ==
    /\ last.op = "sweep"
    /\ \E k \in SweepRows(last.before, pages_to_map[pageIdx - 1].page_id,
                          ml_source_fqdn, ml_env_upper, ml_object_type) :
          /\ DocumentedNotIncluded(k)
          /\ last.before[k].mapping_status \in {"MAPPED_EXACT", "MAPPED_FUZZY", "UNMAPPED_NOT_EXACT"}
          /\ store[k].is_active = 1

\* the rows of the table as the map from composite key to the other columns
AsStore(t) ==
    [k \in {t[i].key : i \in 1..Len(t)} |->
        t[CHOOSE i \in 1..Len(t) : t[i].key = k].cols]

\* C12 (I1): the table never holds two rows with one composite key; an
\* upsert for a key the table holds leaves the number and the order of the
\* rows as they were and changes that row alone, to the columns of the dict
\* over its former columns; an upsert for a new key adds one row; the map
\* from key to row changes as InsertOrUpdate says.
C12_OneRecordPerKey ==
    /\ \A i, j \in 1..Len(table) : table[i].key = table[j].key => i = j
    /\ last.op = "upsert" =>
          LET key == last.key[1]
              d == last.dict
              before == last.before
              held == {i \in 1..Len(before) : before[i].key = key}
          IN /\ held # {} =>
                   /\ Len(table) = Len(before)
                   /\ \A i \in 1..Len(before) :
                         IF i \in held
                         THEN /\ table[i].key = key
                              /\ table[i].cols =
                                    [col \in NonPkColumns |->
                                        IF col \in DOMAIN d THEN d[col] ELSE before[i].cols[col]]
                         ELSE table[i] = before[i]
             /\ held = {} =>
                   /\ Len(table) = Len(before) + 1
                   /\ SubSeq(table, 1, Len(before)) = before
                   /\ table[Len(table)].key = key
             /\ AsStore(table) = InsertOrUpdate(AsStore(before), key, d)

\* an upsert has met its key in a table of several rows and changed the
\* columns of that row
C12_Witness ==
    /\ last.op = "upsert"
    /\ Len(table) >= 2
    /\ \E i \in 1..Len(last.before) :
          /\ last.before[i].key = last.key[1]
          /\ table[i].cols # last.before[i].cols
          /\ table[i].cols.mapping_status = "INACTIVE_ORPHANED"

C14_ExactBeatsFuzzy ==
    last.op = "match" =>
        ((\E i \in 1..Len(last.text) : Upper(last.text[i]) = Upper(last.source))
            => /\ last.data.mapping_status = "MAPPED_EXACT"
               /\ "match_percentage" \in DOMAIN last.data
               /\ last.data.match_percentage = Some(<<100, 1>>))

\* a lower-case documented name has met its column, written in mixed case
\* after another column, under exact_match_only, PARTIAL_RATIO and threshold 100
C14_Witness ==
    /\ last.op = "match"
    /\ last.source = <<"a", "b">>
    /\ last.text = <<<<"b", "a", "d">>, <<"A", "b">>>>
    /\ last.cfg = [match_threshold |-> 100, match_strategy |-> "PARTIAL_RATIO",
                   exact_match_only |-> TRUE]
    /\ last.data.mapping_status = "MAPPED_EXACT"
    /\ last.data.matched_ml_column_name = Some(<<"A", "B">>)

\* the best score of the candidates for the upper-cased query
BestScore == MaxFrac({Scorer(last.cfg.match_strategy, Upper(last.source), last.choices[i]) :
                         i \in 1..Len(last.choices)})

\* C15: when the fuzzy match runs and the best candidate scores exactly
\* match_threshold, the dict records a candidate of that score with that
\* score and has status MAPPED_EXACT, MAPPED_FUZZY or UNMAPPED_NOT_EXACT;
\* when the best candidate scores match_threshold - 1, the status is
\* UNMAPPED_LOW_SCORE and no candidate is recorded.
C15_ThresholdBoundary ==
    last.op = "match" =>
        /\ BestScore[1] = last.cfg.match_threshold * BestScore[2] =>
              /\ last.data.mapping_status \in {"MAPPED_EXACT", "MAPPED_FUZZY", "UNMAPPED_NOT_EXACT"}
              /\ "matched_ml_column_name" \in DOMAIN last.data
              /\ \E i \in 1..Len(last.choices) :
                    /\ last.data.matched_ml_column_name = Some(last.choices[i])
                    /\ ~FracGt(BestScore, Scorer(last.cfg.match_strategy,
                                                 Upper(last.source), last.choices[i]))
              /\ last.data.match_percentage = Some(StoredScore(BestScore))
        /\ BestScore[1] = (last.cfg.match_threshold - 1) * BestScore[2] =>
              /\ last.data.mapping_status = "UNMAPPED_LOW_SCORE"
              /\ "matched_ml_column_name" \notin DOMAIN last.data

\* the best of two candidates scores 50 under threshold 50 and is recorded
\* as a fuzzy match
C15_Witness ==
    /\ last.op = "match"
    /\ last.cfg.match_threshold = 50
    /\ BestScore = <<200, 4>>
    /\ Len(last.choices) = 2
    /\ last.data.mapping_status = "MAPPED_FUZZY"
    /\ last.data.match_percentage = Some(<<50, 1>>)

\* C16: with exact_match_only set, the fuzzy match never writes
\* MAPPED_FUZZY: a best score below 100 that reaches the threshold gives
\* UNMAPPED_NOT_EXACT with the score and a best candidate in the dict, a
\* best score of 100 gives MAPPED_EXACT.
C16_ExactMatchOnlyGate ==
    (last.op = "match" /\ last.cfg.exact_match_only) =>
        /\ last.data.mapping_status # "MAPPED_FUZZY"
        /\ (FracGeq(BestScore, last.cfg.match_threshold) /\ ~FracGeq(BestScore, 100)) =>
              /\ last.data.mapping_status = "UNMAPPED_NOT_EXACT"
              /\ last.data.match_percentage = Some(StoredScore(BestScore))
              /\ \E i \in 1..Len(last.choices) :
                    /\ last.data.matched_ml_column_name = Some(last.choices[i])
                    /\ ~FracGt(BestScore, Scorer(last.cfg.match_strategy,
                                                 Upper(last.source), last.choices[i]))
        /\ FracGeq(BestScore, 100) => last.data.mapping_status = "MAPPED_EXACT"

\* under exact_match_only a candidate of score 80 has passed threshold 50
\* and is recorded with status UNMAPPED_NOT_EXACT
C16_Witness ==
    /\ last.op = "match"
    /\ last.cfg.exact_match_only
    /\ last.cfg.match_threshold = 50
    /\ last.data.mapping_status = "UNMAPPED_NOT_EXACT"
    /\ last.data.match_percentage = Some(<<80, 1>>)
    /\ last.data.matched_ml_column_name = Some(<<"A", "B">>)

\* C17: no statement block of a run creates or changes a row of a (page,
\* environment) that the run skips, that is an environment without resolver
\* entry for the page's source or whose object has no DDL text, no hash or
\* no extractable column.
C17_SkippedEnvironmentUntouched ==
    last.op \in MapperWriteOps =>
        \A k \in DOMAIN store :
            ~EnvUsable(DocumentedOf(k[1]), k[4])
                => k \in DOMAIN last.before /\ store[k] = last.before[k]

\* C18: no step, be it a statement block of a run, a change of the
\* documents, a change of the DDL or a human edit, removes a composite key
\* from the table, and the keys at the end of a run include those at the
\* end of the run before; a row whose column left the documents stays in
\* the table, inactive.
C18_NeverDeleted ==
    /\ DOMAIN last.before \subseteq DOMAIN store
    /\ DOMAIN hist.end1 \subseteq DOMAIN hist.end2
    /\ DOMAIN hist.end2 \subseteq DOMAIN store
    /\ hist.removed \subseteq DOMAIN store

\* a later run has written a row while a row the orphan sweep deactivated
\* is still in the table
C18_Witness ==
    /\ last.op \in {"gate", "fuzzy"}
    /\ \E k \in hist.removed :
          /\ k # last.key[1]
          /\ k \in DOMAIN store
          /\ store[k].is_active = 0
          /\ store[k].mapping_status = "INACTIVE_ORPHANED"

\* C19: at the end of a run in which no unit raises, for every page, every
\* environment whose object and DDL resolve and every documented column
\* marked for inclusion, the table holds the row of the composite key
\* (page, target, fqdn, environment, object type) with is_active = 1.
C19_EveryIncludedColumnHasRecord ==
    (last.op = "end" /\ ~hist.failed) =>
        \A k \in UnitsOfRun : k \in DOMAIN store /\ store[k].is_active = 1

\* a run has ended with the rows of both pages in both scopes, one of them
\* a row that the run before had left inactive
C19_Witness ==
    /\ last.op = "end"
    /\ ~hist.failed
    /\ Cardinality(UnitsOfRun) >= 4
    /\ \E k \in UnitsOfRun :
          /\ k \in DOMAIN hist.end1
          /\ hist.end1[k].is_active = 0
          /\ store[k].is_active = 1

\* the object the source_table of a documented column resolves to in an
\* environment
ResolvePhysicalTarget(source_table, env) ==
    LET resolved == ResolvedEnvFqdns(resolver, source_table)
    IN IF resolved = None THEN NoDetails ELSE resolved[1][env]

\* C20: the row a column-loop block writes for a documented column has, in
\* its composite key, the fqdn and object type that the column's own
\* source_table resolves to in the row's environment, and a matched column
\* of a fuzzy match is a column of that object's DDL.
C20_MatchedAgainstOwnSource ==
    (last.op \in {"guard", "gate", "fuzzy"}) =>
        LET k == last.key[1]
            cols == DocumentedOf(k[1])
        IN \A i \in 1..Len(cols) :
              cols[i].target_field_name = k[2] =>
                 LET own == ResolvePhysicalTarget(cols[i].source_table, k[4])
                 IN /\ k[3] = own.fqdn
                    /\ k[5] = own.object_type
                    /\ (last.op = "fuzzy" /\ store[k].mapping_status \in {"MAPPED_EXACT", "MAPPED_FUZZY"}) =>
                          \E j \in 1..Len(ml_ddl_cache[<<own.fqdn, k[4], own.object_type>>].current_extracted_ddl) :
                             store[k].matched_ml_column_name =
                                Some(Upper(ml_ddl_cache[<<own.fqdn, k[4], own.object_type>>].current_extracted_ddl[j]))

\* a run that nothing stops ends with the table RunResult gives for the
\* table it started on
RunEndsWithRunResult ==
    (last.op = "end" /\ ~hist.failed /\ ~hist.retry) => store = RunResult(hist.start, now)

\* C21: when a run is stopped after some units and run again with the
\* documents, DDL, configuration and rows as they were, the table at the
\* end of the second run equals, last_mapped_on apart, the table that one
\* run that nothing stops makes of the table the first run started on.
C21_SafeRetry ==
    (last.op = "end" /\ ~hist.failed /\ hist.retry) =>
        WithoutTimestamp(store) = WithoutTimestamp(RunResult(hist.start, now))

\* the configuration is missing, or its match_threshold is no number, or
\* its match_strategy is none of the four strategies
ConfigInvalid(raw) ==
    \/ raw.file = "missing"
    \/ raw.match_threshold.type \in {"str", "absent"}
    \/ raw.match_strategy = NULL
    \/ UpperStrategy(raw.match_strategy) \notin MatchStrategies

\* C22: a run started on a configuration that is missing or has a
\* match_threshold of invalid type or an unrecognized match_strategy ends at
\* once: the run is over, no page was fetched, no row was read, and the
\* table is the one the run started on.
C22_ConfigErrorsFatal ==
    (now > 0 /\ ConfigInvalid(hist.raw)) =>
        /\ last.op = "config_error"
        /\ pc = "idle"
        /\ store = hist.start
        /\ store = last.before

\* a run on a configuration with a strategy the loader does not admit has
\* ended at once on a table that an earlier run filled
C22_Witness ==
    /\ last.op = "config_error"
    /\ hist.raw.file = "present"
    /\ hist.raw.match_strategy = "WRATIO"
    /\ hist.raw.match_threshold.type = "int"
    /\ DOMAIN store # {}
    /\ store = hist.start

\* C23: the upsert just applied, applied once more with the same key and
\* the same dict, leaves the table as it is, for a key the table held before
\* and for a new key, on the rows and on the map from key to row.
C23_UpsertIdempotent ==
    last.op = "upsert" =>
        /\ InsertOrUpdateRows(table, last.key[1], last.dict) = table
        /\ InsertOrUpdate(AsStore(table), last.key[1], last.dict) = AsStore(table)

\* an upsert has inserted the row of a new key next to another row, and
\* the same upsert would now take the UPDATE branch
C23_Witness ==
    /\ last.op = "upsert"
    /\ ~RowExists(last.before, last.key[1])
    /\ Len(last.before) >= 1
    /\ RowExists(table, last.key[1])
    /\ SqlUpdate(table, last.key[1], last.dict) = table

\* the environments of config.CHECK_ENVIRONMENTS as a set
EnvironmentNames == {CHECK_ENVIRONMENTS[i] : i \in 1..Len(CHECK_ENVIRONMENTS)}

\* the details the file gives a name and an environment: the last entry of
\* 'specific_environments' for it, else the one of 'defaults', else none
SpecificOf(entry, env) ==
    {i \in 1..Len(entry.specific_environments) :
        UpperWord(entry.specific_environments[i].env) = env}
ListedInDefaults(entry, env) ==
    /\ entry.defaults # <<>>
    /\ \E i \in 1..Len(entry.defaults[1].environments) :
          UpperWord(entry.defaults[1].environments[i]) = env
ExpectedDetails(entry, env) ==
    IF SpecificOf(entry, env) # {}
    THEN LET sp == entry.specific_environments[
                        CHOOSE i \in SpecificOf(entry, env) :
                            \A j \in SpecificOf(entry, env) : j <= i]
         IN Some([fqdn |-> UpperWord(sp.fqdn), object_type |-> UpperWord(sp.object_type)])
    ELSE IF ListedInDefaults(entry, env)
    THEN Some([fqdn |-> UpperWord(entry.defaults[1].fqdn),
               object_type |-> UpperWord(entry.defaults[1].object_type)])
    ELSE None
\* column_mapper.py 154, 165: the lookup of a source name and an environment
LookupDetails(map, source, env) ==
    IF UpperWord(source) \notin DOMAIN map THEN None
    ELSE IF env \notin DOMAIN map[UpperWord(source)] THEN None
    ELSE Some(map[UpperWord(source)][env])

\* C24: in the map load_fqdn_resolver returns, a source name and an
\* environment resolve to the 'specific_environments' entry when there is
\* one, else to the 'defaults' entry when the environment is listed there,
\* else to nothing; an alias resolves to the environment map of its
\* canonical key; keys are upper-cased and the lookup is case-insensitive
C24_ResolverPrecedence ==
    (last.op = "resolver" /\ last.result # None) =>
        LET map == last.result[1]
        IN /\ \A k \in DOMAIN map : UpperWord(k) = k
           /\ \A i \in 1..Len(last.file) :
                 LET entry == last.file[i]
                 IN /\ \A env \in EnvironmentNames :
                          LookupDetails(map, entry.key, env) = ExpectedDetails(entry, env)
                    /\ \A source \in {"s1", "S1", "s2", "S2"} :
                          UpperWord(source) = UpperWord(entry.key) =>
                             LookupDetails(map, source, "DEV")
                                = LookupDetails(map, entry.key, "DEV")
                    /\ \A a \in 1..Len(entry.aliases) :
                          /\ UpperWord(entry.aliases[a]) \in DOMAIN map
                          /\ map[UpperWord(entry.aliases[a])] = map[UpperWord(entry.key)]

\* a file is loaded whose entry has an environment in both 'defaults' and
\* 'specific_environments', one only in 'defaults', and an alias
C24_Witness ==
    /\ last.op = "resolver"
    /\ last.result # None
    /\ \E i \in 1..Len(last.file) :
          /\ SpecificOf(last.file[i], "DEV") # {}
          /\ ListedInDefaults(last.file[i], "DEV")
          /\ ListedInDefaults(last.file[i], "PRU")
          /\ SpecificOf(last.file[i], "PRU") = {}
          /\ last.file[i].key = "s1"
          /\ Len(last.file[i].aliases) > 0

\* a file whose two entries share an alias and differ in their environment maps
C25_Witness ==
    /\ last.op = "resolver"
    /\ last.result = None
    /\ Len(last.file) = 2
    /\ last.file[1].key = "s1"
    /\ last.file[2].key = "s2"
    /\ last.file[1].aliases = <<"x">>
    /\ last.file[2].aliases = <<"X", "s1">>
    /\ CanonicalEnvFqdns(last.file[1]) # CanonicalEnvFqdns(last.file[2])
    /\ DOMAIN CanonicalEnvFqdns(last.file[2]) # {}

\* C25: load_fqdn_resolver raises, and returns no map, when two canonical
\* keys are equal after upper-casing, when an alias is given to two entries
\* with different environment maps, or when an entry has no environment
C25_ResolverConflictsRejected ==
    last.op = "resolver" =>
        LET file == last.file
            n == Len(file)
            sameKey == \E i, j \in 1..n : i # j /\ UpperWord(file[i].key) = UpperWord(file[j].key)
            sharedAlias ==
                \E i, j \in 1..n :
                    /\ i # j
                    /\ \E env \in EnvironmentNames :
                          ExpectedDetails(file[i], env) # ExpectedDetails(file[j], env)
                    /\ \E a \in 1..Len(file[i].aliases), b \in 1..Len(file[j].aliases) :
                          UpperWord(file[i].aliases[a]) = UpperWord(file[j].aliases[b])
            noEnvironment ==
                \E i \in 1..n : \A env \in EnvironmentNames : ExpectedDetails(file[i], env) = None
        IN (sameKey \/ sharedAlias \/ noEnvironment) => last.result = None

\* C26: at every fuzzy-match step of a run the threshold in use lies in
\* 0..100: it is 0 for a configured value below 0, 100 for one above 100 and
\* the configured value otherwise; the step's decision is the one of that
\* threshold: with 0 no column is left as low score, with 100 only a full
\* score is matched, and a low-score note names a threshold in 0..100.
C26_ThresholdClamped ==
    last.op = "fuzzy" =>
        LET configured == hist.raw.match_threshold.v
            written == store[last.key[1]]
        IN /\ config.match_threshold \in 0..100
           /\ configured < 0 => config.match_threshold = 0
           /\ configured > 100 => config.match_threshold = 100
           /\ configured \in 0..100 => config.match_threshold = configured
           /\ config.match_threshold = 0 => written.mapping_status # "UNMAPPED_LOW_SCORE"
           /\ config.match_threshold = 100 =>
                 written.mapping_status \in {"MAPPED_EXACT", "UNMAPPED_LOW_SCORE"}
           /\ written.mapping_status = "UNMAPPED_LOW_SCORE" =>
                 /\ written.notes.score # None
                 /\ written.notes.score[1] \in 0..100

\* a run configured with -5 has matched, under threshold 0, a column that a
\* run configured with 150 had left as low score under threshold 100
C26_Witness ==
    /\ last.op = "fuzzy"
    /\ hist.raw.match_threshold.v < 0
    /\ config.match_threshold = 0
    /\ store[last.key[1]].mapping_status = "MAPPED_FUZZY"
    /\ last.key[1] \in DOMAIN last.before
    /\ last.before[last.key[1]].mapping_status = "UNMAPPED_LOW_SCORE"
    /\ last.before[last.key[1]].notes.score = Some(100)

\* the record of the column and the DDL hash of its scope that the step
\* just taken on a documented column read
VisitedRecord == GetEntry(last.before, last.key[1])
VisitedHash ==
    ml_ddl_cache[<<last.key[1][3], last.key[1][4], last.key[1][5]>>].current_ddl_hash

\* C27: the step taken on a visited documented column is the fuzzy match if
\* and only if there is no record, or the record has user_override 0 and a
\* hash other than the current one or a status other than MAPPED_EXACT and
\* MAPPED_FUZZY; a record with user_override 1 gets the override guard
\* whatever its hash, and a record without override in UNMAPPED_LOW_SCORE,
\* UNMAPPED_NOT_EXACT or INACTIVE_ORPHANED is matched again.
C27_DecisionOrder ==
    last.op \in {"guard", "gate", "fuzzy"} =>
        LET rematch ==
                \/ VisitedRecord = None
                \/ /\ VisitedRecord[1].user_override = 0
                   /\ \/ VisitedRecord[1].ml_source_ddl_hash_at_mapping # VisitedHash
                      \/ VisitedRecord[1].mapping_status \notin {"MAPPED_EXACT", "MAPPED_FUZZY"}
        IN /\ last.op = "fuzzy" <=> rematch
           /\ (VisitedRecord # None /\ VisitedRecord[1].user_override = 1) <=> last.op = "guard"
           /\ ( /\ VisitedRecord # None
                /\ VisitedRecord[1].user_override = 0
                /\ VisitedRecord[1].mapping_status \in
                      {"UNMAPPED_LOW_SCORE", "UNMAPPED_NOT_EXACT", "INACTIVE_ORPHANED"} )
                 => last.op = "fuzzy"

\* a record without override, of the current hash and of a status that is
\* no match, has been matched again
C27_Witness ==
    /\ last.op = "fuzzy"
    /\ VisitedRecord # None
    /\ VisitedRecord[1].user_override = 0
    /\ VisitedRecord[1].ml_source_ddl_hash_at_mapping = VisitedHash
    /\ VisitedRecord[1].mapping_status \in
          {"UNMAPPED_LOW_SCORE", "UNMAPPED_NOT_EXACT", "INACTIVE_ORPHANED"}

\* the documented column the step just taken visited, and the best score of
\* its upper-cased source name over the columns of the scope's DDL
VisitedColumn ==
    LET cols == ColumnsToMap(pages_to_map[last.key[1][1]].columns)
    IN cols[CHOOSE i \in 1..Len(cols) : cols[i].target_field_name = last.key[1][2]]
VisitedBest ==
    LET choices == ExtractColumnsFromDdl(
                      ml_ddl_cache[<<last.key[1][3], last.key[1][4], last.key[1][5]>>]
                          .current_extracted_ddl)
    IN MaxFrac({Scorer(config.match_strategy, Upper(VisitedColumn.source_field_name),
                       choices[i]) : i \in 1..Len(choices)})

\* C28: the record a fuzzy-match step has written has user_override 0,
\* is_active 1, the current DDL hash of its scope and one of the statuses
\* MAPPED_EXACT, MAPPED_FUZZY, UNMAPPED_NOT_EXACT, UNMAPPED_LOW_SCORE; the
\* status is MAPPED_FUZZY exactly when the best score is at least the
\* threshold and below 100 and exact_match_only is off.
C28_FuzzyRecord ==
    last.op = "fuzzy" =>
        LET written == store[last.key[1]]
        IN /\ written.user_override = 0
           /\ written.is_active = 1
           /\ written.ml_source_ddl_hash_at_mapping = VisitedHash
           /\ written.mapping_status \in
                 {"MAPPED_EXACT", "MAPPED_FUZZY", "UNMAPPED_NOT_EXACT", "UNMAPPED_LOW_SCORE"}
           /\ written.mapping_status = "MAPPED_FUZZY" <=>
                 /\ VisitedBest[1] >= config.match_threshold * VisitedBest[2]
                 /\ VisitedBest[1] < 100 * VisitedBest[2]
                 /\ ~config.exact_match_only

\* a fuzzy-match step has written MAPPED_FUZZY for a best score equal to the
\* threshold, over a record of another hash, next to a record left as low
\* score
C28_Witness ==
    /\ last.op = "fuzzy"
    /\ store[last.key[1]].mapping_status = "MAPPED_FUZZY"
    /\ VisitedBest[1] = config.match_threshold * VisitedBest[2]
    /\ VisitedRecord # None
    /\ VisitedRecord[1].ml_source_ddl_hash_at_mapping # VisitedHash
    /\ \E k \in DOMAIN store : store[k].mapping_status = "UNMAPPED_LOW_SCORE"

\* C29: every write of a run is made against the documented set and the DDL
\* hash the run read at its start, whatever the tables hold by then: a
\* column-loop write is for a column of that documented set and carries that
\* hash of its scope, the sweep deactivates only rows whose target is absent
\* from that documented set, and at the end of the run every included
\* documented column of every processed scope has a row with that hash.
C29_ConsistentSnapshot ==
    /\ last.op \in {"guard", "gate", "fuzzy"} =>
          /\ last.key[1][2] \in AllTargetNames_OnlyIncluded(DocumentedOf(last.key[1][1]))
          /\ store[last.key[1]].ml_source_ddl_hash_at_mapping = VisitedHash
    /\ last.op = "sweep" =>
          \A k \in DOMAIN store :
              store[k] # last.before[k] =>
                  k[2] \notin {DocumentedOf(k[1])[i].target_field_name :
                                  i \in 1..Len(DocumentedOf(k[1]))}
    /\ (last.op = "end" /\ ~hist.failed) =>
          \A k \in UnitsOfRun :
              /\ k \in DOMAIN store
              /\ store[k].ml_source_ddl_hash_at_mapping
                    = ml_ddl_cache[<<k[3], k[4], k[5]>>].current_ddl_hash
              /\ \A j \in UnitsOfRun :
                    <<j[1], j[3], j[4], j[5]>> = <<k[1], k[3], k[4], k[5]>> =>
                        store[j].ml_source_ddl_hash_at_mapping
                           = store[k].ml_source_ddl_hash_at_mapping

\* a run has ended with two rows in one scope after the DDL of that scope
\* and the page's document changed while it was going
C29_Witness ==
    /\ last.op = "end"
    /\ ~hist.failed
    /\ \E k \in UnitsOfRun, j \in UnitsOfRun :
          /\ k # j
          /\ <<j[1], j[3], j[4], j[5]>> = <<k[1], k[3], k[4], k[5]>>
          /\ ddl[<<k[3], k[4], k[5]>>].current_ddl_hash
                # ml_ddl_cache[<<k[3], k[4], k[5]>>].current_ddl_hash
          /\ docs[k[1]] # DocumentedOf(k[1])

\* C30: with the SELECT and the write of two upserts of one composite key
\* interleaved in any order, the table never holds two rows of the key, and
\* the row it holds carries, in every column of the dict, the values one of
\* the two writers passed in a write that did not raise; the row a single
\* INSERT left holds nothing but that writer's values.
C30_InterleavedUpsertsKeepKeyUnique ==
    /\ Cardinality(SelectByPk(table, WriterKey)) <= 1
    /\ (last.op \in {"select", "write"} /\ RowExists(table, WriterKey)) =>
          LET row == table[CHOOSE i \in SelectByPk(table, WriterKey) : TRUE]
          IN \E w \in DOMAIN writers :
                /\ writers[w].done # None
                /\ \A col \in DOMAIN writers[w].done[1] :
                      row.cols[col] = writers[w].done[1][col]
    /\ (last.op = "write" /\ last.raises) =>
          /\ table = last.before
          /\ \E w \in DOMAIN writers \ {last.writer} :
                /\ writers[w].done # None
                /\ writers[w].n = 1 /\ writers[last.writer].n = 1 =>
                      \A col \in NonPkColumns :
                          table[1].cols[col] =
                             IF col \in DOMAIN writers[w].done[1]
                             THEN writers[w].done[1][col] ELSE NullOf(col)

\* both writers found no row of the key, one inserted it, and the INSERT of
\* the other, with other values, raised
C30_Witness ==
    /\ last.op = "write"
    /\ last.raises
    /\ writers[1].n = 1
    /\ writers[2].n = 1
    /\ Len(table) = 1
    /\ \E col \in DOMAIN last.dict : table[1].cols[col] # last.dict[col]

\* C31: the record for which a fuzzy-match step has just written
\* UNMAPPED_LOW_SCORE has no matched column, no match percentage and no
\* match strategy, also when it held a match before and the DDL changed.
C31_NoStaleMatch ==
    (last.op = "fuzzy" /\ store[last.key[1]].mapping_status = "UNMAPPED_LOW_SCORE") =>
        /\ store[last.key[1]].matched_ml_column_name = None
        /\ store[last.key[1]].match_percentage = None
        /\ store[last.key[1]].match_strategy = NULL

\* C32: a dict the fuzzy match writes with status MAPPED_EXACT names, as
\* matched column, the upper-cased documented name that was the query, under
\* every scorer; another column that also scores 100 and stands earlier in
\* the DDL is not taken when the identical name is among the columns.
C32_ExactIsIdenticalName ==
    (last.op = "match" /\ last.data.mapping_status = "MAPPED_EXACT") =>
        last.data.matched_ml_column_name = Some(Upper(last.source))

\* C33: in every state, also after a human set user_override on an orphaned
\* row and the mapper ran again, a row with status INACTIVE_ORPHANED has
\* is_active = 0.
C33_OrphanedImpliesInactive ==
    \A k \in DOMAIN store :
        store[k].mapping_status = "INACTIVE_ORPHANED" => store[k].is_active = 0

\* ---------------------------------------- metadata ingestion and parsing
\* the metadata hashes calculate_metadata_hash can return for a page
MetadataHashes == {"m1", "m2"}

PageMetadataColumns == {"extraction_status", "user_verified", "hash_id",
                        "last_parsed_content_hash"}

\* database_manager.py 213: get_page_metadata, the row or nothing
GetPageMetadata(meta, p) == IF p \in DOMAIN meta THEN Some(meta[p]) ELSE None

\* database_manager.py 144-190: an existing row takes the columns the
\* dictionary carries; a missing row is inserted with NULL for the columns
\* the dictionary lacks, which the NOT NULL columns refuse
InsertOrUpdatePageMetadata(meta, p, dict) ==
    IF p \in DOMAIN meta
    THEN [meta EXCEPT ![p] = [c \in PageMetadataColumns |->
                                 IF c \in DOMAIN dict THEN dict[c] ELSE meta[p][c]]]
    ELSE IF PageMetadataColumns \subseteq DOMAIN dict
         THEN [q \in DOMAIN meta \cup {p} |-> IF q = p THEN dict ELSE meta[q]]
         ELSE meta

\* metadata_ingestor.py 99-157: the row an approved report entry becomes,
\* from the row read before the API call and what the call returned
DbMetadata(existing, kind, new_hash_id) ==
    LET kept == IF existing # None /\ existing[1].extraction_status = "PARSED_OK"
                THEN "PARSED_OK" ELSE "PENDING_METADATA_INGESTION"
        old_hash_id == IF existing # None THEN existing[1].hash_id ELSE None
        db_metadata == [user_verified |-> 1,
                        hash_id |-> None,
                        last_parsed_content_hash |->
                            IF existing # None
                            THEN existing[1].last_parsed_content_hash ELSE None,
                        extraction_status |-> kept]
    IN  CASE kind = "ok" ->
                 [db_metadata EXCEPT
                     !.hash_id = Some(new_hash_id),
                     !.extraction_status =
                         IF old_hash_id = None THEN "METADATA_INGESTED"
                         ELSE IF Some(new_hash_id) # old_hash_id THEN "METADATA_INGESTED"
                         ELSE IF kept \notin {"PARSED_OK", "DB_FAILED"}
                              THEN "METADATA_INGESTED" ELSE kept]
          [] kind = "http_error" ->
                 [db_metadata EXCEPT !.extraction_status = "API_FAILED_METADATA"]
          [] OTHER ->
                 [db_metadata EXCEPT !.extraction_status = "METADATA_INGEST_FAILED"]

\* metadata_ingestor.py 160-175 and data_parser.py 133-148: the row is
\* written whole; when that write fails, a second write carries the status
\* DB_FAILED alone
StoreOrFail(meta, p, dict, db_ok) ==
    IF db_ok THEN InsertOrUpdatePageMetadata(meta, p, dict)
    ELSE InsertOrUpdatePageMetadata(meta, p, [extraction_status |-> "DB_FAILED"])

\* what an ingestion or parsing step leaves alone
StageFrame ==
    UNCHANGED <<store, ddl, config, resolver, pc, pages_to_map, ml_ddl_cache,
                pageIdx, envIdx, colIdx, ml_env_upper, ml_source_fqdn, ml_object_type,
                failures, hist, table, writers, ml_metadata>>

\* metadata_ingestor.py 85-97: the run reaches an approved entry of the
\* report and reads the page's row
IngestRead ==
    /\ stages.ingest.pc = "idle"
    /\ edits < MaxEdits
    /\ edits' = edits + 1
    /\ \E p \in Pages :
          /\ stages' = [stages EXCEPT !.ingest = [pc |-> "read", page |-> p,
                                                  existing |-> GetPageMetadata(page_metadata, p)]]
          /\ last' = [op |-> "read", page |-> p, before |-> None]
    /\ UNCHANGED <<page_metadata, docs, now>>
    /\ StageFrame

\* metadata_ingestor.py 122-175: the API call answers or fails, and the row
\* is stored
IngestWrite ==
    /\ stages.ingest.pc = "read"
    /\ \E kind \in {"ok", "http_error", "error"}, h \in MetadataHashes, db_ok \in BOOLEAN :
          /\ kind # "ok" => h = "m1"
          /\ page_metadata' = StoreOrFail(page_metadata, stages.ingest.page,
                                          DbMetadata(stages.ingest.existing, kind, h), db_ok)
          /\ last' = [op |-> "ingest", page |-> stages.ingest.page,
                      before |-> GetPageMetadata(page_metadata, stages.ingest.page)]
    /\ stages' = [stages EXCEPT !.ingest = IdleStages.ingest]
    /\ UNCHANGED <<docs, edits, now>>
    /\ StageFrame

\* data_parser.py 46-48: the row needs parsing
NeedsParse(row) ==
    \/ row.hash_id # row.last_parsed_content_hash
    \/ row.last_parsed_content_hash = None
    \/ row.extraction_status \in {"PENDING_PARSE", "PARSE_FAILED", "API_FAILED_CONTENT",
                                  "DB_FAILED"}

\* data_parser.py 28-32: the approved rows, in the table's order
ApprovedRows(meta) ==
    SelectSeq([p \in 1..Cardinality(Pages) |->
                  IF p \in DOMAIN meta
                  THEN [page_id |-> p, row |-> meta[p]]
                  ELSE [page_id |-> 0, row |-> ParsedRow]],
              LAMBDA e : e.page_id # 0 /\ e.row.user_verified = 1)

\* data_parser.py 39-52: pages_to_parse
PagesToParse(meta) == SelectSeq(ApprovedRows(meta), LAMBDA e : NeedsParse(e.row))

\* data_parser.py 27-59: the run reads the approved rows once and keeps the
\* ones to parse
ParserSelect ==
    /\ stages.parser.pc = "idle"
    /\ now < MaxRuns
    /\ now' = now + 1
    /\ stages' = [stages EXCEPT !.parser =
                     IF PagesToParse(page_metadata) = <<>> THEN IdleStages.parser
                     ELSE [pc |-> "next", todo |-> PagesToParse(page_metadata)]]
    /\ last' = [op |-> "select", todo |-> PagesToParse(page_metadata), before |-> None]
    /\ UNCHANGED <<page_metadata, docs, edits>>
    /\ StageFrame

\* data_parser.py 61-69: the page's entry, as read at the start of the run,
\* is written back with PENDING_PARSE
ParserPending ==
    /\ stages.parser.pc = "next"
    /\ LET e == Head(stages.parser.todo)
       IN  /\ page_metadata' = InsertOrUpdatePageMetadata(page_metadata, e.page_id,
                                   [e.row EXCEPT !.extraction_status = "PENDING_PARSE"])
           /\ last' = [op |-> "pending", page |-> e.page_id, before |-> None]
    /\ stages' = [stages EXCEPT !.parser.pc = "parsing"]
    /\ UNCHANGED <<docs, edits, now>>
    /\ StageFrame

\* data_parser.py 114-130: the entry after the page's content was fetched and
\* parsed, or after either failed
ParsedEntry(row, kind) ==
    CASE kind = "ok" -> [row EXCEPT !.extraction_status = "PARSED_OK",
                                    !.last_parsed_content_hash = row.hash_id]
      [] kind = "http_error" -> [row EXCEPT !.extraction_status = "API_FAILED_CONTENT"]
      [] OTHER -> [row EXCEPT !.extraction_status = "PARSE_FAILED"]

\* data_parser.py 71-148: the page is fetched, parsed and stored, and the
\* entry is written back; the run moves to its next page or ends
ParserFinish ==
    /\ stages.parser.pc = "parsing"
    /\ LET e == Head(stages.parser.todo)
           rest == Tail(stages.parser.todo)
       IN  /\ \E kind \in {"ok", "http_error", "error"}, db_ok \in BOOLEAN :
                 /\ page_metadata' = StoreOrFail(page_metadata, e.page_id,
                                                 ParsedEntry(e.row, kind), db_ok)
                 /\ IF kind = "ok"
                    THEN \E d \in DocVersionsOf(e.page_id) :
                            docs' = [docs EXCEPT ![e.page_id] = d]
                    ELSE UNCHANGED docs
                 /\ last' = [op |-> "parsed", page |-> e.page_id, before |-> None]
           /\ stages' = [stages EXCEPT !.parser =
                            IF rest = <<>> THEN IdleStages.parser
                            ELSE [pc |-> "next", todo |-> rest]]
    /\ UNCHANGED <<edits, now>>
    /\ StageFrame

\* the database before any page was ingested
InitIngestion ==
    /\ store = EmptyStore
    /\ docs = [p \in Pages |-> <<>>]
    /\ resolver \in {[S1 |-> ResolverLastEnv]}
    /\ ddl = [o \in ObjectsOf(resolver) |-> DdlV1]
    /\ config \in {c \in Configs : ~c.exact_match_only}
    /\ pc = "idle"
    /\ pages_to_map = <<>>
    /\ ml_ddl_cache = ddl
    /\ pageIdx = 0 /\ envIdx = 0 /\ colIdx = 0
    /\ ml_env_upper = UNBOUND /\ ml_source_fqdn = UNBOUND /\ ml_object_type = UNBOUND
    /\ now = 0
    /\ edits = 0 /\ failures = 0
    /\ last = NoStep
    /\ hist = [end1 |-> EmptyStore, end2 |-> EmptyStore, runs |-> 0, dirty |-> FALSE,
               failed |-> FALSE, prevFailed |-> FALSE, pair |-> FALSE,
               failedKeys |-> {}, human |-> EmptyStore, removed |-> {},
               start |-> EmptyStore, interrupted |-> FALSE, retry |-> FALSE,
               raw |-> RawDefault, approved |-> {}]
    /\ table = <<>>
    /\ writers = [w \in {1, 2} |-> [pc |-> "idle", dict |-> None, exists |-> FALSE,
                                      done |-> None, n |-> 0]]
    /\ page_metadata = <<>>
    /\ stages = IdleStages
    /\ ml_metadata = <<>>

NextIngestion ==
    \/ IngestRead
    \/ IngestWrite
    \/ ParserSelect
    \/ ParserPending
    \/ ParserFinish

SpecIngestion == InitIngestion /\ [][NextIngestion]_vars


\* a row whose metadata hash is the one it was last parsed at
HashUnchanged(row) == row.hash_id = row.last_parsed_content_hash

\* the parsed pages carry the hash they were parsed at
ParsedAtCurrentHash ==
    \A p \in DOMAIN page_metadata :
        page_metadata[p].extraction_status = "PARSED_OK" => HashUnchanged(page_metadata[p])

\* an ingestion that stores a new hash_id leaves the page out of PARSED_OK
NewHashLeavesParsedOk ==
    (/\ last.op = "ingest"
     /\ last.before # None
     /\ page_metadata[last.page].hash_id # last.before[1].hash_id) =>
        page_metadata[last.page].extraction_status # "PARSED_OK"

\* a parsing run does not take up a parsed page whose hash is unchanged
UnchangedParsedNotReparsed ==
    last.op = "select" =>
        \A i \in DOMAIN last.todo :
            ~(/\ last.todo[i].row.extraction_status = "PARSED_OK"
              /\ HashUnchanged(last.todo[i].row))

\* C35: across the interleavings of ingestion runs and parsing runs, a page
\* with PARSED_OK has last_parsed_content_hash equal to its hash_id, a new
\* hash_id moves the page out of PARSED_OK, and a page with unchanged hash and
\* PARSED_OK is not parsed again
C35_ParsedOkMeansParsedAtHash ==
    /\ ParsedAtCurrentHash
    /\ NewHashLeavesParsedOk
    /\ UnchangedParsedNotReparsed


\* ------------------------------------------- the mapper and the two stages
\* page 1, or every page, ingested, parsed and approved, no mapping record
\* yet; the source table of the pages has one physical object
InitApproval ==
    /\ store = EmptyStore
    /\ page_metadata \in {[p \in ps |-> ParsedRow] : ps \in {{1}, Pages}}
    /\ docs = [p \in Pages |-> IF p \in DOMAIN page_metadata THEN InitialDoc(p) ELSE <<>>]
    /\ resolver = [S1 |-> ResolverOther]
    /\ ddl = [o \in ObjectsOf(resolver) |-> DdlV1]
    /\ config \in {c \in Configs : ~c.exact_match_only}
    /\ pc = "idle"
    /\ pages_to_map = <<>>
    /\ ml_ddl_cache = ddl
    /\ pageIdx = 0 /\ envIdx = 0 /\ colIdx = 0
    /\ ml_env_upper = UNBOUND /\ ml_source_fqdn = UNBOUND /\ ml_object_type = UNBOUND
    /\ now = 0
    /\ edits = 0 /\ failures = 0
    /\ last = NoStep
    /\ hist = [end1 |-> EmptyStore, end2 |-> EmptyStore, runs |-> 0, dirty |-> FALSE,
               failed |-> FALSE, prevFailed |-> FALSE, pair |-> FALSE,
               failedKeys |-> {}, human |-> EmptyStore, removed |-> {},
               start |-> EmptyStore, interrupted |-> FALSE, retry |-> FALSE,
               raw |-> RawDefault, approved |-> {}]
    /\ table = <<>>
    /\ writers = [w \in {1, 2} |-> [pc |-> "idle", dict |-> None, exists |-> FALSE,
                                      done |-> None, n |-> 0]]
    /\ stages = IdleStages
    /\ ml_metadata = <<>>

\* the mapper has run once: the stages ran before the database was first
\* mapped, and run again after it
Mapped == now >= 1

\* the mapper is between two runs or between two pages of a run; inside a
\* page it reads the rows it fetched at the start (column_mapper.py 72-83,
\* 112) and no page row, so a statement of another stage taken there leads
\* to the same state as one taken at the page's boundary
BetweenPages == pc \in {"idle", "page"}

\* mapper runs while ingestion and parsing runs change the page rows and
\* the parsed documents; no record carries a user's override
NextApproval ==
    \/ StartRun
    \/ PageBegin
    \/ EnvBegin
    \/ HashGate
    \/ FuzzyMatch
    \/ OrphanSweep
    \/ EndRun
    \/ BetweenPages /\ Mapped /\ stages.parser.pc = "idle" /\ IngestRead
    \/ BetweenPages /\ IngestWrite
    \/ pc = "idle" /\ Mapped /\ stages.ingest.pc = "idle" /\ ParserSelect
    \/ pc = "idle" /\ ParserPending
    \/ pc = "idle" /\ ParserFinish

SpecApproval == InitApproval /\ [][NextApproval]_vars

DdlTexts == {DdlV1.current_extracted_ddl, DdlV2.current_extracted_ddl}
Sha256(text) == IF text = DdlV1.current_extracted_ddl THEN "h1" ELSE "h2"

\* snowflake_utils.py 85-120: the object is missing or the existence check
\* failed, the object exists and GET_DDL gave nothing, or it gave the text
CheckResults ==
    {[exists |-> 0, ddl |-> None], [exists |-> 1, ddl |-> None]}
        \cup {[exists |-> 1, ddl |-> Some(t)] : t \in DdlTexts}

\* the objects ml_table_checker checks
CheckedObjects == ObjectsOf([S1 |-> ResolverLastEnv])

\* database_manager.py 250 with every extracted DDL taken as a change
DdlChanged_Always(new_ddl_hash, old_current_ddl_hash) == new_ddl_hash # None

\* database_manager.py 250: new_ddl_hash and new_ddl_hash != old_current_ddl_hash
DdlChanged(new_ddl_hash, old_current_ddl_hash) ==
    new_ddl_hash # None /\ new_ddl_hash # old_current_ddl_hash

\* database_manager.py 227-306: the row after the call, from the row read
\* (or none), the entry of ml_table_checker.py 120-149 and the timestamp
SnowflakeMlRow(existing, entry, ts) ==
    LET new_ddl == entry.ddl
        new_ddl_hash == IF new_ddl # None THEN Some(Sha256(new_ddl[1])) ELSE None
    IN  IF existing # None
        THEN LET e == existing[1]
                 history ==
                     IF DdlChanged(new_ddl_hash, e.current_ddl_hash)
                     THEN [previous_ddl_hash |-> e.current_ddl_hash,
                           previous_extracted_ddl |-> e.current_extracted_ddl,
                           ddl_changed_on |-> Some(ts)]
                     ELSE IF e.exists_in_snowflake = 0 /\ entry.exists = 1
                     THEN [previous_ddl_hash |-> e.previous_ddl_hash,
                           previous_extracted_ddl |-> e.previous_extracted_ddl,
                           ddl_changed_on |-> Some(ts)]
                     ELSE [previous_ddl_hash |-> e.previous_ddl_hash,
                           previous_extracted_ddl |-> e.previous_extracted_ddl,
                           ddl_changed_on |-> e.ddl_changed_on]
             IN  [exists_in_snowflake |-> entry.exists,
                  current_ddl_hash |-> new_ddl_hash,
                  current_extracted_ddl |-> new_ddl,
                  last_ddl_extracted_on |->
                      IF new_ddl # None THEN Some(ts) ELSE e.last_ddl_extracted_on,
                  previous_ddl_hash |-> history.previous_ddl_hash,
                  previous_extracted_ddl |-> history.previous_extracted_ddl,
                  ddl_changed_on |-> history.ddl_changed_on,
                  last_checked_on |-> ts]
        ELSE [exists_in_snowflake |-> entry.exists,
              current_ddl_hash |-> new_ddl_hash,
              current_extracted_ddl |-> new_ddl,
              last_ddl_extracted_on |-> IF new_ddl # None THEN Some(ts) ELSE None,
              previous_ddl_hash |-> None,
              previous_extracted_ddl |-> None,
              ddl_changed_on |-> Some(ts),
              last_checked_on |-> ts]

\* DatabaseManager.get_snowflake_ml_metadata
GetSnowflakeMlMetadata(rows, key) == IF key \in DOMAIN rows THEN Some(rows[key]) ELSE None

\* database_manager.py 227-306: insert_or_update_snowflake_ml_metadata
InsertOrUpdateSnowflakeMlMetadata(rows, key, entry, ts) ==
    [k \in DOMAIN rows \cup {key} |->
        IF k = key THEN SnowflakeMlRow(GetSnowflakeMlMetadata(rows, key), entry, ts)
        ELSE rows[k]]

\* ml_table_checker.py 98-156: one object is checked in the warehouse and
\* its row stored
CheckObject ==
    /\ now < MaxRuns
    /\ now' = now + 1
    /\ \E key \in CheckedObjects, entry \in CheckResults :
          /\ ml_metadata' = InsertOrUpdateSnowflakeMlMetadata(ml_metadata, key, entry, now')
          /\ last' = [op |-> "check", key |-> key, entry |-> entry,
                      before |-> GetSnowflakeMlMetadata(ml_metadata, key)]
    /\ UNCHANGED <<store, docs, ddl, config, resolver, pc, pages_to_map, ml_ddl_cache,
                   pageIdx, envIdx, colIdx, ml_env_upper, ml_source_fqdn, ml_object_type,
                   edits, failures, hist, table, writers, page_metadata, stages>>

\* the database before any object was checked
InitDdlHistory ==
    /\ InitIngestion

NextDdlHistory ==
    \/ CheckObject

SpecDdlHistory == InitDdlHistory /\ [][NextDdlHistory]_vars

\* the call just made updated an existing row and carried a DDL
UpdatedWithDdl == last.op = "check" /\ last.before # None /\ last.entry.ddl # None

\* C36: an update of an existing row with a DDL whose hash differs from the
\* stored current_ddl_hash moves the old current hash and DDL to the previous
\* columns and stores the new hash; with an equal hash the previous columns
\* and ddl_changed_on keep their values
C36_DdlChangeTracking ==
    UpdatedWithDdl =>
        LET old == last.before[1]
            new == ml_metadata[last.key]
            h == Some(Sha256(last.entry.ddl[1]))
        IN  IF h # old.current_ddl_hash
            THEN /\ new.previous_ddl_hash = old.current_ddl_hash
                 /\ new.previous_extracted_ddl = old.current_extracted_ddl
                 /\ new.current_ddl_hash = h
            ELSE /\ new.previous_ddl_hash = old.previous_ddl_hash
                 /\ new.previous_extracted_ddl = old.previous_extracted_ddl
                 /\ new.ddl_changed_on = old.ddl_changed_on

\* a row whose DDL had changed before was updated with the DDL it holds:
\* its history is the one of the earlier change
C36_Witness ==
    /\ UpdatedWithDdl
    /\ Some(Sha256(last.entry.ddl[1])) = last.before[1].current_ddl_hash
    /\ ml_metadata[last.key].previous_ddl_hash # None
    /\ ml_metadata[last.key].previous_ddl_hash # ml_metadata[last.key].current_ddl_hash
    /\ ml_metadata[last.key].ddl_changed_on # Some(now)

\* C37: whenever a call makes current_ddl_hash stop being a non-null hash,
\* that hash is the previous_ddl_hash the call stores, whether or not the
\* call carried a DDL
C37_NoDdlVersionLost ==
    (/\ last.op = "check"
     /\ last.before # None
     /\ last.before[1].current_ddl_hash # None
     /\ ml_metadata[last.key].current_ddl_hash # last.before[1].current_ddl_hash) =>
        ml_metadata[last.key].previous_ddl_hash = last.before[1].current_ddl_hash


====
